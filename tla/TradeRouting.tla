----------------------------- MODULE TradeRouting ------------------------------
(***************************************************************************)
(* How order_settlement and a2a_darkpool fill a trade.  Both venues call   *)
(* perp_engine once per side and perp_vault once per fee inside a single   *)
(* transaction, so each call must see what the calls before it did, and a  *)
(* refusal of the last one undoes them all.                                *)
(*                                                                         *)
(* A book is the state those calls share.  A call is a condition on a book *)
(* and the book it returns; a venue's instruction chains them and takes    *)
(* one step.                                                               *)
(***************************************************************************)
EXTENDS PerpEngine

CONSTANTS LastTime, MaxChanges      \* bounds on the clock and on what owners change

Now == 1 .. LastTime

ASSUME VenueAssumption == LastTime \in Nat \ {0} /\ MaxChanges \in Nat

VARIABLES
    venue_authorized,   \* the vault lets the venue's authority move value
    config,             \* the venue's configuration
    now,                \* the cluster's clock
    changes             \* how much the owners have changed

Books == [market |-> market, position |-> position, ledger |-> ledger]

Becomes(b) ==
    /\ market' = b.market
    /\ position' = b.position
    /\ ledger' = b.ledger

--------------------------------------------------------------------------------
\* perp_engine.open_position

Grown(b, m, t, size_delta, fill_price) ==
    LET pos == b.position[m][t]
        new_size == pos.size + size_delta
        entry == EntryPrice(pos, new_size, fill_price)
    IN  [size |-> new_size, entry_price |-> entry,
         margin |-> RequiredMargin(b.market[m].initial_margin_bps, Abs(new_size), entry)]

OpenLegAllowed(b, m, t, size_delta, fill_price) ==
    LET pos == b.position[m][t]
        new == Grown(b, m, t, size_delta, fill_price)
        additional == SatSub(new.margin, pos.margin)
    IN  /\ b.market[m].active
        /\ size_delta # 0 /\ fill_price > 0
        /\ new.size \in I64
        /\ WithinLimit(b.market[m], new.size)
        /\ Pnl(ClosedSize(pos.size, new.size), pos.entry_price, fill_price) \in I64
        /\ new.entry_price \in U64
        /\ new.margin \in U64
        /\ additional > 0 => PoolIsSet
        /\ CanPay(b.ledger, t, Pool, additional)

OpenLeg(b, m, t, size_delta, fill_price) ==
    LET pos == b.position[m][t]
        new == Grown(b, m, t, size_delta, fill_price)
    IN  [market |-> [b.market EXCEPT ![m] = Rebook(@, pos.size, new.size)],
         position |-> [b.position EXCEPT ![m][t] = new],
         ledger |-> Paid(b.ledger, t, Pool, SatSub(new.margin, pos.margin))]

--------------------------------------------------------------------------------
\* perp_engine.close_position

OwedOnClose(pos, fill_price) ==
    CloseReturn(pos.margin, Pnl(pos.size, pos.entry_price, fill_price))

CloseLegAllowed(b, m, t, fill_price) ==
    LET pos == b.position[m][t]
        owed == OwedOnClose(pos, fill_price)
    IN  /\ fill_price > 0
        /\ pos.size # 0
        /\ Pnl(pos.size, pos.entry_price, fill_price) \in I64
        /\ owed \in U64
        /\ owed > 0 => PoolIsSet
        /\ CanPay(b.ledger, Pool, t, owed)

CloseLeg(b, m, t, fill_price) ==
    LET pos == b.position[m][t]
    IN  [market |-> [b.market EXCEPT ![m] = Rebook(@, pos.size, 0)],
         position |-> [b.position EXCEPT ![m][t] = Emptied(@)],
         ledger |-> Paid(b.ledger, Pool, t, OwedOnClose(pos, fill_price))]

--------------------------------------------------------------------------------
\* perp_engine.reduce_position

IsFlip(pos, new_size) == Sign(pos.size) # Sign(new_size)

Shrunk(b, m, t, size_delta, fill_price) ==
    LET pos == b.position[m][t]
        new_size == pos.size + size_delta
        entry == IF IsFlip(pos, new_size) THEN fill_price ELSE pos.entry_price
    IN  [size |-> new_size, entry_price |-> entry,
         margin |-> RequiredMargin(b.market[m].initial_margin_bps, Abs(new_size), entry)]

RealizedPnl(pos, new, fill_price) ==
    Pnl(ClosedSize(pos.size, new.size), pos.entry_price, fill_price)
ReleasedMargin(pos, new) ==
    IF IsFlip(pos, new.size) THEN pos.margin ELSE SatSub(pos.margin, new.margin)
LockedOnFlip(pos, new) == IF IsFlip(pos, new.size) THEN new.margin ELSE 0
OwedOnReduce(pos, new, fill_price) ==
    CloseReturn(ReleasedMargin(pos, new), RealizedPnl(pos, new, fill_price))

ReduceLegAllowed(b, m, t, size_delta, fill_price) ==
    LET pos == b.position[m][t]
        new == Shrunk(b, m, t, size_delta, fill_price)
        pnl == RealizedPnl(pos, new, fill_price)
        released == ReleasedMargin(pos, new)
        lock_new == LockedOnFlip(pos, new)
        payout == OwedOnReduce(pos, new, fill_price)
        is_flip == IsFlip(pos, new.size)
    IN  /\ size_delta # 0 /\ fill_price > 0
        /\ pos.size # 0
        /\ new.size \in I64
        /\ new.size # 0
        /\ IF is_flip THEN b.market[m].active ELSE Abs(new.size) < Abs(pos.size)
        /\ WithinLimit(b.market[m], new.size)
        /\ new.margin \in U64
        /\ pnl \in I64
        /\ payout \in U64
        /\ ~ is_flip => released + pnl >= 0
        /\ (lock_new > 0 \/ released > 0 \/ pnl # 0) => PoolIsSet
        /\ CanPay(b.ledger, t, Pool, lock_new)
        /\ CanPay(Paid(b.ledger, t, Pool, lock_new), Pool, t, payout)

ReduceLeg(b, m, t, size_delta, fill_price) ==
    LET pos == b.position[m][t]
        new == Shrunk(b, m, t, size_delta, fill_price)
        rebooked == IF IsFlip(pos, new.size) THEN new.size ELSE 0
    IN  [market |-> [b.market EXCEPT ![m] =
             Rebook(@, ClosedSize(pos.size, new.size), rebooked)],
         position |-> [b.position EXCEPT ![m][t] = new],
         ledger |-> Paid(Paid(b.ledger, t, Pool, LockedOnFlip(pos, new)),
                         Pool, t, OwedOnReduce(pos, new, fill_price))]

--------------------------------------------------------------------------------
\* route_engine_trade: what the trade does to the position as it is now
\* decides which of the three is called.

Grows(b, m, t, size_delta) ==
    LET size == b.position[m][t].size
    IN  size = 0 \/ (size > 0 <=> size_delta > 0)
Empties(b, m, t, size_delta) == b.position[m][t].size + size_delta = 0

LegAllowed(b, op, m, t, size_delta, fill_price) ==
    /\ op \in operators
    /\ ~ paused
    /\ IF Grows(b, m, t, size_delta) THEN OpenLegAllowed(b, m, t, size_delta, fill_price)
       ELSE IF Empties(b, m, t, size_delta) THEN CloseLegAllowed(b, m, t, fill_price)
       ELSE ReduceLegAllowed(b, m, t, size_delta, fill_price)

LegAlwaysOpens(b, m, t, size_delta, fill_price) ==      \* a mutant: every fill calls open_position
    OpenLeg(b, m, t, size_delta, fill_price)

Leg(b, m, t, size_delta, fill_price) ==
    IF Grows(b, m, t, size_delta) THEN OpenLeg(b, m, t, size_delta, fill_price)
    ELSE IF Empties(b, m, t, size_delta) THEN CloseLeg(b, m, t, fill_price)
    ELSE ReduceLeg(b, m, t, size_delta, fill_price)

\* The net of all sizes in a market.
NetSize(pos, m) == SumTo([t \in Traders |-> pos[m][t].size], NumTraders)

\* What a trade may leave in the pool of the margin and the profit and loss of
\* one position: the loss of the old position at the price of the trade, and
\* what rounding down the average entry takes off the margin of a position
\* that grew.
LeftBehind(old, new, price) ==
    IF new = old THEN 0
    ELSE IF Sign(new.size) = Sign(old.size) /\ Abs(new.size) > Abs(old.size)
    THEN SatSub(old.margin, new.margin)
    ELSE SatSub(0, Pnl(old.size, old.entry_price, price))

--------------------------------------------------------------------------------
\* A fee: one internal_transfer signed by the venue's authority, skipped when
\* there is nothing to charge.

FeePayable(led, from, to, amount) ==
    amount > 0 =>
        /\ venue_authorized
        /\ ~ vault_gate.paused
        /\ TransferAllowed(led, from, to, amount, vault_gate.max_per_tx)

WithLedger(b, led) == [b EXCEPT !.ledger = led]
================================================================================
