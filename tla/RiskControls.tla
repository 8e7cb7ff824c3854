------------------------------ MODULE RiskControls -----------------------------
(***************************************************************************)
(* The engine with both programs that act on it when prices move: the      *)
(* liquidator, open to anybody, and auto_deleveraging, whose operator acts *)
(* on a reading of the positions.  Fills come from one more operator.      *)
(***************************************************************************)
EXTENDS Liquidator, AutoDeleveraging

CONSTANT Settlement     \* the engine operator behind the fills

all_vars == <<vars, liquidator_vars, adl_vars>>

Fill ==
    \E m \in Markets, t \in Traders, fill_price \in Prices :
        \/ \E size_delta \in SizeDeltas :
              \/ OpenPosition(Settlement, m, t, size_delta, fill_price)
              \/ ReducePosition(Settlement, m, t, size_delta, fill_price)
        \/ ClosePosition(Settlement, m, t, fill_price)

NewMark == \E m \in Markets, price \in Prices : UpdateMarkPrice(Settlement, m, price)

RiskNext ==
    \/ (Fill \/ NewMark) /\ UNCHANGED <<liquidator_vars, adl_vars>>
    \/ LiquidatorStep /\ UNCHANGED adl_vars
    \/ AdlStep /\ UNCHANGED liquidator_vars

\* All three programs deployed and every market listed.
RiskInit == Deployed(Markets) /\ LiquidatorInit /\ AdlInit

RiskSpec == RiskInit /\ [][RiskNext]_all_vars

\* Every counter of the three programs stays within its width and every
\* setting within its type.
RiskTypeOK == TypeOK /\ LiquidatorTypeOK /\ AdlTypeOK

\* The three programs stay typed and never get in the way of a liquidation.
RiskInv == RiskTypeOK /\ CanAlwaysLiquidate
================================================================================
