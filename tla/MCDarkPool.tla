------------------------------ MODULE MCDarkPool -------------------------------
(***************************************************************************)
(* A small instance of DarkPool on a deployed engine: the first agent asks *)
(* for a position at either price, and for a large sale that opens or      *)
(* flips one; the second asks to buy at one price, which opens or closes.  *)
(***************************************************************************)
EXTENDS DarkPool, MCPerpEngine

Ask(is_buy, size, min_price, max_price, duration) ==
    [market_id |-> 1, is_buy |-> is_buy, size |-> size, min_price |-> min_price,
     max_price |-> max_price, duration |-> duration]

ThreeAsks == {<<1, Ask(TRUE, 1, 2, 4, 1)>>, <<1, Ask(FALSE, 2, 2, 2, 2)>>,
              <<2, Ask(TRUE, 1, 2, 2, 1)>>}

\* no fee, and a large trade takes half the best score
NoFee == <<0, 3, 5>>

MarksAreLow == \A m \in Markets : market[m].mark_price = 2

LowStart == DarkStart /\ MarksAreLow

LowSpec == LowStart /\ [][DarkNext]_dvars
================================================================================
