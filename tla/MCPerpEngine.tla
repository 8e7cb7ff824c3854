----------------------------- MODULE MCPerpEngine ------------------------------
(***************************************************************************)
(* Small instances of PerpEngine.  Prices, sizes and basis points are      *)
(* scaled down; what is kept is that margins and profits round, that a     *)
(* loss can exceed a margin, and that the pool can run short.              *)
(***************************************************************************)
EXTENDS PerpEngine, FiniteSets

CONSTANTS
    InitialMargin, MaintenanceMargin, MaxSize,
    TraderFunds, TraderCredit, PoolFunds, InsuranceFunds

MCParams == {[initial_margin_bps |-> InitialMargin,
              maintenance_margin_bps |-> MaintenanceMargin,
              max_position_size |-> MaxSize]}

MCDeltas == (-2 * MaxSize .. 2 * MaxSize) \ {0}

OpenGate == [paused |-> FALSE, max_per_tx |-> 0, engine_authorized |-> TRUE]
OneGate == {OpenGate}
OpenOrPaused == {OpenGate, [OpenGate EXCEPT !.paused = TRUE]}

MCLedger ==
    [balance |-> [a \in Accounts |-> IF a \in Traders THEN TraderFunds
                                     ELSE IF a = Pool THEN PoolFunds
                                     ELSE IF a = Insurance THEN InsuranceFunds ELSE 0],
     collateral_balance |-> [a \in Accounts |-> IF a \in Traders THEN TraderCredit ELSE 0]]

--------------------------------------------------------------------------------
\* Engines from their first instruction on and engines in routine operation.
\* Trades go deep while the settings are routine.  What owners, depositors and
\* the vault change, and trades after it, is explored once the market is listed
\* for one change at a time, with at most one unit held by the first trader and
\* nothing traded by the others.
EngineInit == Init \/ Deployed(Markets)

Changes ==
    {c \in 1 .. 7 :
        CASE c = 1 -> paused
          [] c = 2 -> operators # Keys
          [] c = 3 -> pending_owner # NoKey
          [] c = 4 -> engine_pool # Pool
          [] c = 5 -> insurance_fund_balance # Insurance
          [] c = 6 -> vault_gate # OpenGate
          [] c = 7 -> TotalBalance(ledger) # TotalBalance(InitialLedger)}

Unlisted == \A m \in Markets : ~ market[m].active

Shallow ==
    /\ Unlisted \/ Cardinality(Changes) <= 1
    /\ \A m \in Markets : Abs(position[m][1].size) <= 1
    /\ \A t \in Traders \ {1} :
          /\ ledger.balance[t] = InitialLedger.balance[t]
          /\ \A m \in Markets : position[m][t].size = 0

EngineNext ==
    \/ Changes = {} /\ (TradeStep \/ PriceStep)
    \/ Shallow /\ Next /\ Shallow'

EngineSpec == EngineInit /\ [][EngineNext]_vars
================================================================================
