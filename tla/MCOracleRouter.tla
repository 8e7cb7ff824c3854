----------------------------- MODULE MCOracleRouter ----------------------------
(* Small instances of OracleRouter.                                        *)
EXTENDS OracleRouter

CONSTANTS btc, sol, btc_market, sol_market, alice, bob, Marks

OwnMarket == {<<btc, btc_market>>, <<sol, sol_market>>}

NoChecks == {[max_staleness |-> 0, max_deviation_bps |-> 0, max_confidence_bps |-> 0]}

\* Fresh quotes at each price, without checks of their own.
PlainQuotes == [mark : Marks, index : {1}, source : {1}, age : {0}, confidence : {0}]

\* One feed checked for age, confidence and deviation, and unchecked.
OneMarket == {<<btc, btc_market>>}
CheckedFeeds == NoChecks \cup
    {[max_staleness |-> 1, max_deviation_bps |-> 1000, max_confidence_bps |-> 2]}
MixedQuotes == [mark : Marks, index : {0, 10}, source : {PYTH, DUAL}, age : {-1, 0, 2},
                confidence : {2, 3}]
================================================================================
