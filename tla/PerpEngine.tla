------------------------------ MODULE PerpEngine -------------------------------
(***************************************************************************)
(* perp_engine: positions, margin, profit and loss, liquidation.           *)
(*                                                                         *)
(* The engine holds no money.  It moves value between a trader's row and   *)
(* the pool's row in perp_vault with internal_transfer calls made inside   *)
(* the same transaction, so an instruction is one atomic step on positions,*)
(* markets and the vault's ledger; if a call fails the instruction fails.  *)
(* Between two instructions anything may happen: other instructions, fills *)
(* at any price, a new mark price, deposits, withdrawals, a pause or a cap *)
(* in the vault.  Timestamps and the index price are never read back by    *)
(* the engine and are left out.                                            *)
(***************************************************************************)
EXTENDS VaultLedger

CONSTANTS
    NumMarkets, NumTraders,
    Pool,               \* the engine authority's row in the vault
    Insurance,          \* the insurance fund's row
    NoAccount,          \* Pubkey::default() as an account
    Keys, NoKey,        \* signing keys, and the key nobody has
    SIZE_PRECISION, BPS,
    KEEPER_REWARD_BAD_DEBT_BPS, KEEPER_REWARD_CAP_BPS,
    MarketParams,       \* parameters an owner may list a market with
    SizeDeltas, Prices, \* what operators may fill
    VaultGates,         \* settings of the vault that gate its transfers
    Transfers,          \* amounts traders move in and out of the vault
    PoolFunding,        \* amounts an owner puts into the pool
    MaxFunds,           \* bound on the value in the vault
    InitialLedger       \* the rows when the engine is initialized

Markets == 1 .. NumMarkets
Traders == 1 .. NumTraders
MaxI64 == (MaxU64 - 1) \div 2
I64 == -MaxI64 - 1 .. MaxI64

ASSUME EngineAssumption ==
    /\ NumMarkets \in Nat /\ NumTraders \in Nat /\ NumTraders <= NumAccounts
    /\ {Pool, Insurance} \subseteq Accounts \ Traders
    /\ Pool # Insurance
    /\ NoAccount \notin Accounts
    /\ NoKey \notin Keys
    /\ SIZE_PRECISION \in Nat \ {0} /\ BPS \in Nat \ {0}
    /\ KEEPER_REWARD_BAD_DEBT_BPS \in Nat /\ KEEPER_REWARD_CAP_BPS \in Nat
    /\ MarketParams \subseteq [initial_margin_bps : U64, maintenance_margin_bps : U64,
                               max_position_size : U64]
    /\ SizeDeltas \subseteq Int /\ Prices \subseteq U64 /\ Transfers \cup PoolFunding \subseteq U64
    /\ VaultGates \subseteq [paused : BOOLEAN, max_per_tx : U64, engine_authorized : BOOLEAN]
    /\ VaultGates # {}
    /\ MaxFunds \in Nat
    /\ InitialLedger \in Ledgers

\* Open interest is a u64 updated with saturating additions.  It is exact as
\* long as the listed size limits let every trader hold a full position.
ASSUME OpenInterestFits ==
    \A p \in MarketParams : NumTraders * p.max_position_size <= MaxU64

VARIABLES
    owner, pending_owner, paused,
    operators,              \* keys whose Operator account is authorized
    engine_pool,            \* NoAccount until bootstrap_engine_pool
    insurance_fund_balance, \* NoAccount until set
    market, position,
    ledger, vault_gate      \* perp_vault's rows, and what gates its transfers

admin == <<owner, pending_owner, paused, operators, insurance_fund_balance>>
vars == <<admin, engine_pool, market, position, ledger, vault_gate>>

NoMarket == [active |-> FALSE, initial_margin_bps |-> 0, maintenance_margin_bps |-> 0,
             max_position_size |-> 0, mark_price |-> 0,
             open_interest_long |-> 0, open_interest_short |-> 0]
NoPosition == [size |-> 0, entry_price |-> 0, margin |-> 0]

TypeOK ==
    /\ owner \in Keys
    /\ pending_owner \in Keys \cup {NoKey}
    /\ paused \in BOOLEAN
    /\ operators \subseteq Keys
    /\ engine_pool \in {Pool, NoAccount}
    /\ insurance_fund_balance \in {Insurance, NoAccount}
    /\ market \in [Markets ->
          [active : BOOLEAN, initial_margin_bps : U64, maintenance_margin_bps : U64,
           max_position_size : U64, mark_price : U64,
           open_interest_long : U64, open_interest_short : U64]]
    /\ position \in [Markets -> [Traders -> [size : I64, entry_price : U64, margin : U64]]]
    /\ ledger \in Ledgers
    /\ vault_gate \in VaultGates

Init ==
    /\ owner \in Keys
    /\ pending_owner = NoKey
    /\ paused = FALSE
    /\ operators = {}
    /\ engine_pool = NoAccount
    /\ insurance_fund_balance = NoAccount
    /\ market = [m \in Markets |-> NoMarket]
    /\ position = [m \in Markets |-> [t \in Traders |-> NoPosition]]
    /\ ledger = InitialLedger
    /\ vault_gate \in VaultGates

\* The engine as a routine deployment leaves it: one operator, some markets
\* listed with a price, the pool funded, the insurance balance set.
Deployed(listed) ==
    /\ owner \in Keys /\ pending_owner = NoKey
    /\ paused = FALSE
    /\ operators = Keys
    /\ engine_pool = Pool
    /\ insurance_fund_balance = Insurance
    /\ \E params \in MarketParams, price \in Prices :
          /\ params.maintenance_margin_bps < params.initial_margin_bps
          /\ market = [m \in Markets |-> IF m \notin listed THEN NoMarket ELSE
              [active |-> TRUE, initial_margin_bps |-> params.initial_margin_bps,
               maintenance_margin_bps |-> params.maintenance_margin_bps,
               max_position_size |-> params.max_position_size, mark_price |-> price,
               open_interest_long |-> 0, open_interest_short |-> 0]]
    /\ position = [m \in Markets |-> [t \in Traders |-> NoPosition]]
    /\ ledger = InitialLedger
    /\ vault_gate \in VaultGates

--------------------------------------------------------------------------------
(* Arithmetic *)

Abs(x) == IF x < 0 THEN -x ELSE x
Sign(x) == IF x > 0 THEN 1 ELSE IF x < 0 THEN -1 ELSE 0
AtMost(x, y) == IF x < y THEN x ELSE y
SatSub(x, y) == IF x >= y THEN x - y ELSE 0
SatAdd(x, y) == AtMost(x + y, MaxU64)

\* Rust's integer division rounds toward zero.
TruncDiv(x, d) == IF x >= 0 THEN x \div d ELSE -((-x) \div d)

\* Profit of the part closed (a signed size) of a position at a price.
Pnl(closed, entry_price, price) ==
    TruncDiv((IF closed > 0 THEN price - entry_price ELSE entry_price - price) * Abs(closed),
             SIZE_PRECISION)

Notional(abs_size, price) == (abs_size * price) \div SIZE_PRECISION
Share(bps, amount) == (amount * bps) \div BPS
RequiredMargin(initial_margin_bps, abs_size, price) ==
    Share(initial_margin_bps, Notional(abs_size, price))

\* The part of the old position that a change of size closes.
ClosedSize(old_size, new_size) ==
    IF Sign(old_size) # Sign(new_size) THEN old_size
    ELSE IF Abs(new_size) < Abs(old_size) THEN old_size - new_size ELSE 0

\* A fresh or flipped position takes the fill price, a grown one the average
\* weighted by size, a reduced one keeps its entry.
EntryPrice(pos, new_size, fill_price) ==
    IF Sign(pos.size) # Sign(new_size) \/ pos.size = 0 THEN fill_price
    ELSE IF Abs(new_size) > Abs(pos.size)
         THEN (Abs(pos.size) * pos.entry_price
                  + (Abs(new_size) - Abs(pos.size)) * fill_price) \div Abs(new_size)
         ELSE pos.entry_price

LongPart(size) == IF size > 0 THEN size ELSE 0
ShortPart(size) == IF size < 0 THEN -size ELSE 0

\* Open interest after dropping one signed size and adding another.
RebookAddsOnly(mkt, dropped, added) ==      \* a mutant: closing forgets the open interest
    [mkt EXCEPT !.open_interest_long = SatAdd(@, LongPart(added)),
                !.open_interest_short = SatAdd(@, ShortPart(added))]

Rebook(mkt, dropped, added) ==
    [mkt EXCEPT !.open_interest_long = SatAdd(SatSub(@, LongPart(dropped)), LongPart(added)),
                !.open_interest_short = SatAdd(SatSub(@, ShortPart(dropped)), ShortPart(added))]

--------------------------------------------------------------------------------
(* Calls to perp_vault.internal_transfer, skipped when there is nothing to move *)

CanPay(led, from, to, amount) ==
    amount > 0 =>
        /\ vault_gate.engine_authorized
        /\ ~ vault_gate.paused
        /\ TransferAllowed(led, from, to, amount, vault_gate.max_per_tx)

PaidBackwards(led, from, to, amount) ==     \* a mutant: the two rows swapped in the call
    IF amount > 0 THEN Transferred(led, to, from, amount) ELSE led

Paid(led, from, to, amount) ==
    IF amount > 0 THEN Transferred(led, from, to, amount) ELSE led

\* Two calls in this order; each names from, to and amount.
CanPayTwice(f1, t1, a1, f2, t2, a2) ==
    /\ CanPay(ledger, f1, t1, a1)
    /\ CanPay(Paid(ledger, f1, t1, a1), f2, t2, a2)

PayTwice(f1, t1, a1, f2, t2, a2) ==
    /\ CanPayTwice(f1, t1, a1, f2, t2, a2)
    /\ ledger' = Paid(Paid(ledger, f1, t1, a1), f2, t2, a2)

PoolIsSet == engine_pool # NoAccount

WithinLimitSigned(mkt, size) == size <= mkt.max_position_size   \* a mutant: no absolute value
WithinLimit(mkt, size) == Abs(size) <= mkt.max_position_size

EmptiedKeepsMargin(pos) == [pos EXCEPT !.size = 0]              \* a mutant: margin not reset
Emptied(pos) == NoPosition

--------------------------------------------------------------------------------
(* Positions *)

\* Grow, flip, shrink or empty a position, locking margin but never paying
\* any out: margin freed here stays in the pool.
OpenPosition(op, m, t, size_delta, fill_price) ==
    LET mkt == market[m]
        pos == position[m][t]
        new_size == pos.size + size_delta
        entry == EntryPrice(pos, new_size, fill_price)
        required == RequiredMargin(mkt.initial_margin_bps, Abs(new_size), entry)
        additional == SatSub(required, pos.margin)
    IN  /\ op \in operators
        /\ ~ paused
        /\ mkt.active
        /\ size_delta # 0 /\ fill_price > 0
        /\ new_size \in I64
        /\ WithinLimit(mkt, new_size)
        /\ Pnl(ClosedSize(pos.size, new_size), pos.entry_price, fill_price) \in I64
        /\ entry \in U64
        /\ required \in U64
        /\ additional > 0 => PoolIsSet
        /\ CanPay(ledger, t, Pool, additional)
        /\ ledger' = Paid(ledger, t, Pool, additional)
        /\ market' = [market EXCEPT ![m] = Rebook(mkt, pos.size, new_size)]
        /\ position' = [position EXCEPT ![m][t] =
               [size |-> new_size, entry_price |-> entry, margin |-> required]]
        /\ UNCHANGED <<admin, engine_pool, vault_gate>>

\* What closing pays back: margin and profit, or margin less loss, or
\* nothing when the loss reaches the margin.  Then the rest is bad debt.
CloseReturn(released, pnl) == IF released + pnl > 0 THEN released + pnl ELSE 0

ClosePosition(op, m, t, fill_price) ==
    LET pos == position[m][t]
        pnl == Pnl(pos.size, pos.entry_price, fill_price)
        owed == CloseReturn(pos.margin, pnl)
    IN  /\ op \in operators
        /\ ~ paused
        /\ fill_price > 0
        /\ pos.size # 0
        /\ pnl \in I64
        /\ owed \in U64
        /\ owed > 0 => PoolIsSet
        /\ CanPay(ledger, Pool, t, owed)
        /\ ledger' = Paid(ledger, Pool, t, owed)
        /\ market' = [market EXCEPT ![m] = Rebook(@, pos.size, 0)]
        /\ position' = [position EXCEPT ![m][t] = Emptied(@)]
        /\ UNCHANGED <<admin, engine_pool, vault_gate>>

\* Shrink or flip a position, settling the part closed.  A flip first locks
\* the whole margin of the new side, then pays the old side out.
ReducePosition(op, m, t, size_delta, fill_price) ==
    LET mkt == market[m]
        pos == position[m][t]
        new_size == pos.size + size_delta
        is_flip == Sign(pos.size) # Sign(new_size)
        closed == ClosedSize(pos.size, new_size)
        pnl == Pnl(closed, pos.entry_price, fill_price)
        entry == IF is_flip THEN fill_price ELSE pos.entry_price
        required == RequiredMargin(mkt.initial_margin_bps, Abs(new_size), entry)
        released == IF is_flip THEN pos.margin ELSE SatSub(pos.margin, required)
        lock_new == IF is_flip THEN required ELSE 0
        payout == CloseReturn(released, pnl)
    IN  /\ op \in operators
        /\ ~ paused
        /\ size_delta # 0 /\ fill_price > 0
        /\ pos.size # 0
        /\ new_size \in I64
        /\ new_size # 0
        /\ IF is_flip THEN mkt.active ELSE Abs(new_size) < Abs(pos.size)
        /\ WithinLimit(mkt, new_size)
        /\ required \in U64
        /\ pnl \in I64
        /\ payout \in U64
        /\ ~ is_flip => released + pnl >= 0
        /\ (lock_new > 0 \/ released > 0 \/ pnl # 0) => PoolIsSet
        /\ PayTwice(t, Pool, lock_new, Pool, t, payout)
        /\ market' = [market EXCEPT ![m] = Rebook(@, closed, IF is_flip THEN new_size ELSE 0)]
        /\ position' = [position EXCEPT ![m][t] =
               [size |-> new_size, entry_price |-> entry, margin |-> required]]
        /\ UNCHANGED <<admin, engine_pool, vault_gate>>

--------------------------------------------------------------------------------
(* Liquidation *)

LiquidatableOnMargin(mkt, pos) ==       \* a mutant: locked margin in place of equity
    pos.margin < Share(mkt.maintenance_margin_bps, Notional(Abs(pos.size), mkt.mark_price))

LiquidatableAtBound(mkt, pos) ==        \* a mutant: at the requirement, not below it
    pos.margin + Pnl(pos.size, pos.entry_price, mkt.mark_price)
        <= Share(mkt.maintenance_margin_bps, Notional(Abs(pos.size), mkt.mark_price))

Liquidatable(mkt, pos) ==
    pos.margin + Pnl(pos.size, pos.entry_price, mkt.mark_price)
        < Share(mkt.maintenance_margin_bps, Notional(Abs(pos.size), mkt.mark_price))

\* What a liquidation leaves of the margin, the keeper's share of it, and the
\* keeper's bounty when nothing is left.
LeftAtMark(mkt, pos) == pos.margin + Pnl(pos.size, pos.entry_price, mkt.mark_price)
NotionalAtMark(mkt, pos) == Notional(Abs(pos.size), mkt.mark_price)
KeeperBounty(mkt, pos) == Share(KEEPER_REWARD_BAD_DEBT_BPS, NotionalAtMark(mkt, pos))
KeeperReward(mkt, pos) ==
    AtMost(LeftAtMark(mkt, pos) \div 2, Share(KEEPER_REWARD_CAP_BPS, NotionalAtMark(mkt, pos)))

\* Every check of the instruction, those of its calls to the vault included.
LiquidationAllowed(op, m, t, keeper, insurance) ==
    LET mkt == market[m]
        pos == position[m][t]
        left == LeftAtMark(mkt, pos)
        bounty == KeeperBounty(mkt, pos)
        reward == KeeperReward(mkt, pos)
    IN  /\ op \in operators
        /\ ~ paused
        /\ mkt.active
        /\ mkt.mark_price > 0
        /\ pos.size # 0
        /\ Liquidatable(mkt, pos)
        /\ Pnl(pos.size, pos.entry_price, mkt.mark_price) \in I64
        /\ PoolIsSet \/ left <= 0
        /\ insurance_fund_balance \in {insurance, NoAccount}
        /\ IF left <= 0
           THEN bounty \in U64 /\ CanPay(ledger, insurance, keeper, bounty)
           ELSE /\ {reward, left - reward} \subseteq U64
                /\ CanPayTwice(Pool, keeper, reward, Pool, insurance, left - reward)

\* Close the whole position at the mark price.  What is left of its margin
\* goes from the pool to the keeper and the insurance fund; if nothing is
\* left, the insurance fund pays the keeper.  Until an insurance balance is
\* configured, the caller names it.
LiquidatePosition(op, m, t, keeper, insurance) ==
    LET mkt == market[m]
        pos == position[m][t]
        left == LeftAtMark(mkt, pos)
        reward == KeeperReward(mkt, pos)
    IN  /\ LiquidationAllowed(op, m, t, keeper, insurance)
        /\ IF left <= 0
           THEN ledger' = Paid(ledger, insurance, keeper, KeeperBounty(mkt, pos))
           ELSE PayTwice(Pool, keeper, reward, Pool, insurance, left - reward)
        /\ market' = [market EXCEPT ![m] = Rebook(@, pos.size, 0)]
        /\ position' = [position EXCEPT ![m][t] = Emptied(@)]
        /\ UNCHANGED <<admin, engine_pool, vault_gate>>

--------------------------------------------------------------------------------
(* Markets, prices, the owner *)

UpdateMarkPrice(op, m, new_mark_price) ==
    /\ op \in operators
    /\ ~ paused
    /\ market[m].active
    /\ new_mark_price > 0
    /\ market' = [market EXCEPT ![m].mark_price = new_mark_price]
    /\ UNCHANGED <<admin, engine_pool, position, ledger, vault_gate>>

AddMarket(key, m, params) ==
    /\ key = owner
    /\ ~ market[m].active
    /\ 0 < params.maintenance_margin_bps
    /\ params.maintenance_margin_bps < params.initial_margin_bps
    /\ params.max_position_size > 0
    /\ market' = [market EXCEPT ![m] =
           [NoMarket EXCEPT !.active = TRUE,
                            !.initial_margin_bps = params.initial_margin_bps,
                            !.maintenance_margin_bps = params.maintenance_margin_bps,
                            !.max_position_size = params.max_position_size]]
    /\ UNCHANGED <<admin, engine_pool, position, ledger, vault_gate>>

\* Deposit USDC into the pool's row and record the pool; repeatable.
BootstrapEnginePool(key, amount) ==
    /\ key = owner
    /\ amount > 0
    /\ ~ vault_gate.paused
    /\ ledger.balance[Pool] + amount <= MaxU64
    /\ TotalBalance(ledger) + amount <= MaxFunds
    /\ engine_pool' = Pool
    /\ ledger' = [ledger EXCEPT !.balance[Pool] = @ + amount]
    /\ UNCHANGED <<admin, market, position, vault_gate>>

Pause(key) ==
    /\ key = owner /\ ~ paused
    /\ paused' = TRUE
    /\ UNCHANGED <<owner, pending_owner, operators, insurance_fund_balance,
                   engine_pool, market, position, ledger, vault_gate>>

Unpause(key) ==
    /\ key = owner /\ paused
    /\ paused' = FALSE
    /\ UNCHANGED <<owner, pending_owner, operators, insurance_fund_balance,
                   engine_pool, market, position, ledger, vault_gate>>

SetInsuranceFundBalance(key, balance) ==
    /\ key = owner
    /\ insurance_fund_balance' = balance
    /\ UNCHANGED <<owner, pending_owner, paused, operators,
                   engine_pool, market, position, ledger, vault_gate>>

SetOperator(key, op, status) ==
    /\ key = owner
    /\ operators' = IF status THEN operators \cup {op} ELSE operators \ {op}
    /\ UNCHANGED <<owner, pending_owner, paused, insurance_fund_balance,
                   engine_pool, market, position, ledger, vault_gate>>

TransferOwnership(key, new_owner) ==
    /\ key = owner
    /\ pending_owner' = new_owner
    /\ UNCHANGED <<owner, paused, operators, insurance_fund_balance,
                   engine_pool, market, position, ledger, vault_gate>>

AcceptOwnership(key) ==
    /\ key = pending_owner
    /\ owner' = key
    /\ pending_owner' = NoKey
    /\ UNCHANGED <<paused, operators, insurance_fund_balance,
                   engine_pool, market, position, ledger, vault_gate>>

--------------------------------------------------------------------------------
(* What others do to the vault between two engine instructions; PerpVault  *)
(* models these in full.                                                   *)

VaultDeposit(t, amount) ==
    /\ amount > 0
    /\ ~ vault_gate.paused
    /\ ledger.balance[t] + amount <= MaxU64
    /\ TotalBalance(ledger) + amount <= MaxFunds
    /\ ledger' = [ledger EXCEPT !.balance[t] = @ + amount]
    /\ UNCHANGED <<admin, engine_pool, market, position, vault_gate>>

VaultWithdraw(t, amount) ==
    /\ amount > 0
    /\ ~ vault_gate.paused
    /\ amount <= ledger.balance[t]
    /\ ledger' = [ledger EXCEPT !.balance[t] = @ - amount]
    /\ UNCHANGED <<admin, engine_pool, market, position, vault_gate>>

SetVaultGate(gate) ==
    /\ vault_gate' = gate
    /\ UNCHANGED <<admin, engine_pool, market, position, ledger>>

--------------------------------------------------------------------------------
TradeStep ==
    \E op \in Keys, m \in Markets, t \in Traders :
        \/ \E size_delta \in SizeDeltas, fill_price \in Prices :
              \/ OpenPosition(op, m, t, size_delta, fill_price)
              \/ ReducePosition(op, m, t, size_delta, fill_price)
        \/ \E fill_price \in Prices : ClosePosition(op, m, t, fill_price)
        \/ \E keeper, insurance \in Accounts : LiquidatePosition(op, m, t, keeper, insurance)

PriceStep ==
    \E op \in Keys, m \in Markets, price \in Prices : UpdateMarkPrice(op, m, price)

OwnerStep ==
    \E key \in Keys :
        \/ \E m \in Markets, params \in MarketParams : AddMarket(key, m, params)
        \/ \E amount \in PoolFunding : BootstrapEnginePool(key, amount)
        \/ Pause(key)
        \/ Unpause(key)
        \/ \E balance \in {Insurance, NoAccount} : SetInsuranceFundBalance(key, balance)
        \/ \E op \in Keys, status \in BOOLEAN : SetOperator(key, op, status)
        \/ \E new_owner \in Keys : TransferOwnership(key, new_owner)
        \/ AcceptOwnership(key)

VaultStep ==
    \/ \E t \in Traders, amount \in Transfers : VaultDeposit(t, amount) \/ VaultWithdraw(t, amount)
    \/ \E gate \in VaultGates : SetVaultGate(gate)

Next == TradeStep \/ PriceStep \/ OwnerStep \/ VaultStep

Spec == Init /\ [][Next]_vars

--------------------------------------------------------------------------------
(* Properties *)

\* A running total of open interest, kept by saturating deltas in four
\* handlers, is the sum over all positions: saturation never hides anything.
OpenInterestExact ==
    \A m \in Markets :
        /\ market[m].open_interest_long
               = SumTo([t \in Traders |-> LongPart(position[m][t].size)], NumTraders)
        /\ market[m].open_interest_short
               = SumTo([t \in Traders |-> ShortPart(position[m][t].size)], NumTraders)

\* Whatever sequence of fills led to it, a position holds exactly the initial
\* margin of its size at its entry price.  So the saturating subtractions of
\* margins in open and reduce are exact.
MarginIsRequired ==
    \A m \in Markets, t \in Traders :
        LET pos == position[m][t]
        IN  pos.margin = RequiredMargin(market[m].initial_margin_bps, Abs(pos.size),
                                        pos.entry_price)

\* A position is open only in a listed market, within its limit and at a
\* positive entry price, through every average and flip.
PositionsListed ==
    \A m \in Markets, t \in Traders :
        LET pos == position[m][t]
        IN  pos.size # 0 => /\ market[m].active
                            /\ Abs(pos.size) <= market[m].max_position_size
                            /\ pos.entry_price > 0

\* The books of the engine: every position typed, listed and holding what its
\* entry demands, through averages, flips, reductions and liquidations.
EngineInv == TypeOK /\ MarginIsRequired /\ PositionsListed

\* With the mark at its own entry price no position can be liquidated: no
\* fill leaves a trader under water at once, whatever the rounding.
SafeAtEntry ==
    \A m \in Markets, t \in Traders :
        LET pos == position[m][t]
        IN  pos.size # 0 =>
                ~ Liquidatable([market[m] EXCEPT !.mark_price = pos.entry_price], pos)

\* Only a position that loses at the mark price can be liquidated, so a
\* liquidation never hands a trader's profit to the keeper and the fund.  The
\* engine does not check this; it follows for maintenance margins up to half
\* the notional.
OnlyLosersLiquidatable ==
    \A m \in Markets, t \in Traders :
        LET pos == position[m][t]
        IN  /\ pos.size # 0
            /\ 2 * market[m].maintenance_margin_bps <= BPS
            /\ Liquidatable(market[m], pos)
            => Pnl(pos.size, pos.entry_price, market[m].mark_price) <= 0

\* An instruction on a position moves value between rows of the vault and
\* neither creates nor destroys any, in either column.
TradesConserve ==
    [][position' # position =>
          /\ TotalBalance(ledger') = TotalBalance(ledger)
          /\ TotalCollateral(ledger') = TotalCollateral(ledger)]_vars

\* With an insurance balance configured, what any engine instruction takes
\* out of a trader's row is at most the margin of a position of that same
\* trader which that instruction leaves open.  A loss beyond the margin is
\* never collected from the trader, and nobody pays for somebody else's fill.
LimitedLiability ==
    [][insurance_fund_balance # NoAccount /\ position' # position =>
          \A t \in Traders :
              LET taken == Spendable(ledger, t) - Spendable(ledger', t)
              IN  taken > 0 =>
                      \E m \in Markets : /\ position'[m][t] # position[m][t]
                                         /\ taken <= position'[m][t].margin]_vars

TotalMargin(pos) ==
    SumTo([m \in Markets |-> SumTo([t \in Traders |-> pos[m][t].margin], NumTraders)], NumMarkets)
PoolSurplus(led, pos) == Spendable(led, Pool) - TotalMargin(pos)
Wealth(led, pos, t) == Spendable(led, t) + SumTo([m \in Markets |-> pos[m][t].margin], NumMarkets)

\* The pool's surplus over the margins entrusted to it falls only because one
\* trader's row and margins together grew by exactly as much, which is a
\* profit paid: not in a liquidation, not by a flip, not by rounding.  As in
\* LimitedLiability an insurance balance is configured, and as in
\* OnlyLosersLiquidatable maintenance margins are at most half the notional:
\* otherwise the liquidator may name the pool as the insurer of bad debt, and
\* a winner may be liquidated and its profit leave with the margin.
PoolPaysOnlyProfits ==
    [][LET drop == PoolSurplus(ledger, position) - PoolSurplus(ledger', position')
       IN  /\ insurance_fund_balance # NoAccount
           /\ \A m \in Markets : 2 * market[m].maintenance_margin_bps <= BPS
           /\ drop > 0
           => \E t \in Traders :
                 Wealth(ledger', position', t) - Wealth(ledger, position, t) = drop]_vars

\* While the engine is paused no position and no mark price moves, whoever
\* the operator is.
PauseFreezes ==
    [][paused => /\ position' = position
                 /\ \A m \in Markets : market'[m].mark_price = market[m].mark_price]_vars
================================================================================
