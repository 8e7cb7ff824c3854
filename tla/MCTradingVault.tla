---------------------------- MODULE MCTradingVault -----------------------------
(***************************************************************************)
(* A small instance of TradingVault: two depositors, one manager, a listed *)
(* market and one the owner may still list, room to register one of them.  *)
(* Fees are a quarter of the worth per unit of time and half of the gain.  *)
(***************************************************************************)
EXTENDS TradingVault, MCPerpEngine

CONSTANTS DepositorFunds

Usual == [performance_fee_bps |-> 2, management_fee_bps |-> 1, deposit_cap |-> 4,
          lockup_period_secs |-> 1, max_drawdown_bps |-> 1]
GoodAndBad == {Usual, [Usual EXCEPT !.performance_fee_bps = 3]}

\* go long, close, flip
LongOrFlip == {-2, 1}

VaultLedgers ==
    [balance |-> [a \in Accounts |-> IF a \in Depositors THEN DepositorFunds
                                     ELSE IF a = Pool THEN PoolFunds
                                     ELSE IF a = Insurance THEN InsuranceFunds ELSE 0],
     collateral_balance |-> [a \in Accounts |-> 0]]

MarkIsLow == market[1].mark_price = 2

\* VaultStart with the first market listed at the lower price.
LowStart == Deployed({1}) /\ MarkIsLow /\ VaultInit

LowSpec == LowStart /\ [][VaultNext]_allvars
================================================================================
