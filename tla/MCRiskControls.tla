----------------------------- MODULE MCRiskControls ----------------------------
(***************************************************************************)
(* One trader between a settlement operator, a keeper and an ADL operator, *)
(* after a routine deployment.                                             *)
(***************************************************************************)
EXTENDS RiskControls

CONSTANTS
    InitialMargin, MaintenanceMargin, MaxSize, TraderFunds, PoolFunds, InsuranceFunds

MCParams == {[initial_margin_bps |-> InitialMargin,
              maintenance_margin_bps |-> MaintenanceMargin,
              max_position_size |-> MaxSize]}
MCDeltas == (-MaxSize .. MaxSize) \ {0}
OneGate == {[paused |-> FALSE, max_per_tx |-> 0, engine_authorized |-> TRUE]}
MCLedger ==
    [balance |-> [a \in Accounts |-> IF a \in Traders THEN TraderFunds
                                     ELSE IF a = Pool THEN PoolFunds
                                     ELSE IF a = Insurance THEN InsuranceFunds ELSE 0],
     collateral_balance |-> [a \in Accounts |-> 0]]
================================================================================
