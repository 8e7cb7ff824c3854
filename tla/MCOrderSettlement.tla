--------------------------- MODULE MCOrderSettlement ---------------------------
(***************************************************************************)
(* A small instance of OrderSettlement on a deployed engine.  The traders  *)
(* have signed an opening pair, a shorter-lived order of the first trader  *)
(* with the same nonce, and a pair that closes or flips what the first     *)
(* opened and whose nonces lie in the next page.  The opening pair trades  *)
(* at one price only, the other at any.                                    *)
(***************************************************************************)
EXTENDS OrderSettlement, MCPerpEngine

Order(trader, is_long, size, price, nonce) ==
    [trader |-> trader, market_id |-> 1, is_long |-> is_long, size |-> size, price |-> price,
     nonce |-> nonce, expiry |-> LastTime, signed_at |-> 1]
ShortLived == [Order(1, TRUE, 1, 2, 0) EXCEPT !.expiry = LastTime - 1]

TwoTraders == {Order(1, TRUE, 1, 2, 0), ShortLived, Order(2, FALSE, 1, 2, 0),
               Order(1, FALSE, 2, 2, 2), Order(2, TRUE, 2, 4, 2)}

NoFees == <<0, 0>>
TwoTicks == <<2, 3>>
TopTier == <<0, 0, 1>>
SmallTiers == {<<0, 0, 1>>}
SmallFees == {<<0, 0>>, <<1, 1>>}
SmallDelays == {<<0, 3>>, <<1, 3>>, <<2, 3>>}
================================================================================
