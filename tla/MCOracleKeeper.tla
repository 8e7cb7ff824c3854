----------------------------- MODULE MCOracleKeeper ----------------------------
(* Small instances of OracleKeeper.                                        *)
EXTENDS OracleKeeper

CONSTANTS btc, sol, btc_market, sol_market, alice

OwnMarket == {<<btc, btc_market>>, <<sol, sol_market>>}
Unchecked == [max_staleness |-> 0, max_deviation_bps |-> 0, max_confidence_bps |-> 0]
================================================================================
