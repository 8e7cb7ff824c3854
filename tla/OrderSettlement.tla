---------------------------- MODULE OrderSettlement ----------------------------
(***************************************************************************)
(* order_settlement: an operator matches two orders that traders signed    *)
(* off chain, charges fees and fills both sides at the engine, in one      *)
(* transaction.                                                            *)
(*                                                                         *)
(* SignedOrders is what traders have signed and nothing else: no operator  *)
(* can make an order up, so a signature check is membership in it.  An     *)
(* order's digest is the order itself.  A nonce may be used once: it is a  *)
(* bit of the page account of its trader.  An operator may first commit an *)
(* order, which takes a snapshot of the fees and the delay in force.       *)
(* Between commit and settlement the owner changes the parameters, time    *)
(* passes, positions are liquidated, and other orders settle.              *)
(***************************************************************************)
EXTENDS TradeRouting, FiniteSets

CONSTANTS
    SignedOrders,   \* records: trader, market_id, is_long, size, price, nonce, expiry, signed_at
    os,             \* the program's authority account, an operator of the engine
    Relayers,       \* keys that may be operators of this program
    PageBits,       \* nonces to a page account: 256
    MAX_FEE_BPS, MAX_DELAY_SECS,
    DefaultFees, DefaultDelays, DefaultTiers,   \* what initialize sets
    FeeChoices,     \* pairs of maker and taker fee the owner may set
    DelayChoices,   \* pairs of least and largest delay the owner may set
    TierChoices,    \* triples of spread tiers the owner may set
    FeeRecipients,  \* rows fees may go to
    MaxCommits      \* bound on the number of snapshots

Orders == [trader : Traders, market_id : Markets, is_long : BOOLEAN, size : U64, price : U64,
           nonce : Nat, expiry : Now, signed_at : Now]

ASSUME SettlementAssumption ==
    /\ SignedOrders \subseteq Orders
    /\ os \in Keys
    /\ PageBits \in Nat \ {0} /\ {MAX_FEE_BPS, MAX_DELAY_SECS} \subseteq Nat
    /\ FeeChoices \subseteq (0 .. MAX_FEE_BPS) \X (0 .. MAX_FEE_BPS)
    /\ DelayChoices \subseteq {d \in (0 .. MAX_DELAY_SECS) \X (0 .. MAX_DELAY_SECS) : d[1] <= d[2]}
    /\ TierChoices \subseteq {s \in Nat \X Nat \X Nat : s[1] <= s[2] /\ s[2] <= s[3]}
    /\ DefaultFees \in FeeChoices /\ DefaultDelays \in DelayChoices /\ DefaultTiers \in TierChoices
    /\ FeeRecipients \subseteq Accounts
    /\ MaxCommits \in Nat

\* config is OrderSettlementConfig.
VARIABLES
    relayers,       \* keys whose Operator account says authorized
    nonce_page,     \* the bits of every trader's pages
    snapshot,       \* OrderSnapshot of every order, NoSnapshot before its commit
    fills           \* history: how often an order of a trader's nonce was settled

settlement == <<config, relayers, nonce_page, snapshot, now, fills>>
svars == <<vars, venue_authorized, settlement, changes>>

Page(nonce) == nonce \div PageBits
Bit(nonce) == nonce % PageBits
Pages == {Page(o.nonce) : o \in SignedOrders}
TraderNonces == {<<o.trader, o.nonce>> : o \in SignedOrders}

\* The parameters a commit takes a snapshot of.
Terms(c, time) ==
    [commit_time |-> time, maker_fee_bps |-> c.maker_fee_bps, taker_fee_bps |-> c.taker_fee_bps,
     min_settlement_delay |-> c.min_settlement_delay,
     dynamic_spread_enabled |-> c.dynamic_spread_enabled, tiers |-> c.tiers]
NoSnapshot == [commit_time |-> 0]

SettlementTypeOK ==
    /\ TypeOK
    /\ venue_authorized \in BOOLEAN
    /\ config \in [owner : Keys \cup Relayers, pending_owner : Keys \cup Relayers \cup {NoKey},
                   fee_recipient : Accounts, paused : BOOLEAN,
                   maker_fee_bps : 0 .. MAX_FEE_BPS, taker_fee_bps : 0 .. MAX_FEE_BPS,
                   min_settlement_delay : 0 .. MAX_DELAY_SECS,
                   max_settlement_delay : 0 .. MAX_DELAY_SECS,
                   dynamic_spread_enabled : BOOLEAN, tiers : TierChoices]
    /\ config.min_settlement_delay <= config.max_settlement_delay
    /\ relayers \subseteq Relayers
    /\ nonce_page \in [Traders -> [Pages -> SUBSET (0 .. PageBits - 1)]]
    /\ \A o \in SignedOrders : snapshot[o].commit_time \in 0 .. now
    /\ now \in Now
    /\ fills \in [TraderNonces -> 0 .. 2]
    /\ changes \in 0 .. MaxChanges

\* initialize, after the deployment has wired the program to the engine and
\* the vault and registered the relayers.
SettlementInit ==
    /\ venue_authorized = TRUE
    /\ \E key \in Relayers, recipient \in FeeRecipients :
          config = [owner |-> key, pending_owner |-> NoKey, fee_recipient |-> recipient,
                    paused |-> FALSE,
                    maker_fee_bps |-> DefaultFees[1], taker_fee_bps |-> DefaultFees[2],
                    min_settlement_delay |-> DefaultDelays[1],
                    max_settlement_delay |-> DefaultDelays[2],
                    dynamic_spread_enabled |-> TRUE, tiers |-> DefaultTiers]
    /\ relayers = Relayers
    /\ changes = 0
    /\ nonce_page = [t \in Traders |-> [p \in Pages |-> {}]]
    /\ snapshot = [o \in SignedOrders |-> NoSnapshot]
    /\ now = 1
    /\ fills = [tn \in TraderNonces |-> 0]

--------------------------------------------------------------------------------
\* Commit

Committed(o) == snapshot[o].commit_time # 0

\* A second commit of an order succeeds and changes nothing.
CommitOrder(op, o) ==
    /\ op \in relayers
    /\ ~ config.paused
    /\ ~ Committed(o)
    /\ Cardinality({s \in SignedOrders : Committed(s)}) < MaxCommits
    /\ snapshot' = [snapshot EXCEPT ![o] = Terms(config, now)]
    /\ UNCHANGED <<vars, venue_authorized, config, relayers, nonce_page, now, fills>>

--------------------------------------------------------------------------------
\* Settle

IsSet(o) == Bit(o.nonce) \in nonce_page[o.trader][Page(o.nonce)]

MarkTaken(maker, taker) ==      \* a mutant: only the taker's nonce is spent
    [nonce_page EXCEPT ![taker.trader][Page(taker.nonce)] = @ \cup {Bit(taker.nonce)}]

Mark(maker, taker) ==
    [nonce_page EXCEPT ![maker.trader][Page(maker.nonce)] = @ \cup {Bit(maker.nonce)},
                       ![taker.trader][Page(taker.nonce)] = @ \cup {Bit(taker.nonce)}]

WithinOneLimit(maker, taker, price) ==      \* a mutant: the maker's limit is not looked at
    IF taker.is_long THEN price <= taker.price ELSE price >= taker.price

\* The execution price against the two limit prices.
WithinPrices(maker, taker, price) ==
    IF taker.is_long THEN maker.price <= price /\ price <= taker.price
                     ELSE taker.price <= price /\ price <= maker.price

Opposite(maker, taker) ==
    /\ maker.trader # taker.trader
    /\ maker.market_id = taker.market_id
    /\ maker.is_long # taker.is_long
Pairs == {p \in SignedOrders \X SignedOrders : Opposite(p[1], p[2])}

Matches(maker, taker, price, size) ==
    /\ Opposite(maker, taker)
    /\ size > 0 /\ price > 0
    /\ WithinPrices(maker, taker, price)
    /\ size <= maker.size /\ size <= taker.size

InTime(o) ==
    /\ now <= o.expiry
    /\ o.signed_at <= now
    /\ config.max_settlement_delay > 0 => now - o.signed_at <= config.max_settlement_delay

\* With both snapshots given, the delay of the later commit must have
\* passed since that commit; without them there may be no delay at all.
\* When both were committed at once the taker's delay counts.
DelayPassed(maker, taker, with_maker, with_taker) ==
    LET m == snapshot[maker]
        t == snapshot[taker]
        later == IF m.commit_time > t.commit_time THEN m ELSE t
    IN  IF with_maker /\ with_taker
        THEN now >= later.commit_time + later.min_settlement_delay
        ELSE config.min_settlement_delay = 0

\* An order's terms: its snapshot if the operator gives it, else the
\* configuration of the day.
TermsInForce(o, given) == Terms(config, now)     \* a mutant: the snapshot is not used
TermsFor(o, given) == IF given THEN snapshot[o] ELSE Terms(config, now)

\* The taker pays extra when it trades toward the heavier side, or is long
\* while the sides are equal.  The heavier side is at least half, so the
\* first tier is never charged.
SpreadExtra(mkt, is_long, terms) ==
    LET long == mkt.open_interest_long
        short == mkt.open_interest_short
        dominant == IF long > short THEN long ELSE short
    IN  IF ~ terms.dynamic_spread_enabled \/ long + short = 0 \/ (is_long <=> long < short)
        THEN 0
        ELSE IF 10 * dominant >= 7 * (long + short) THEN terms.tiers[3]
        ELSE IF 2 * dominant >= long + short THEN terms.tiers[2]
        ELSE terms.tiers[1]

MakerFee(maker, given, price, size) ==
    Share(TermsFor(maker, given).maker_fee_bps, Notional(size, price))
TakerFee(taker, given, m, price, size) ==
    LET terms == TermsFor(taker, given)
    IN  Share(terms.taker_fee_bps + SpreadExtra(market[m], taker.is_long, terms),
              Notional(size, price))

Delta(o, size) == IF o.is_long THEN size ELSE -size
Counted(maker, taker) ==
    [tn \in TraderNonces |->
        IF tn \in {<<maker.trader, maker.nonce>>, <<taker.trader, taker.nonce>>}
        THEN AtMost(fills[tn] + 1, 2) ELSE fills[tn]]

\* The book after the two fees.
FeesPaid(maker, taker, maker_fee, taker_fee) ==
    WithLedger(Books, Paid(Paid(ledger, maker.trader, config.fee_recipient, maker_fee),
                           taker.trader, config.fee_recipient, taker_fee))

SettleOneSided(op, maker, taker, price, size, with_maker, with_taker, m) ==
    \* a mutant: when the taker's side is refused the maker's stands
    /\ op \in relayers /\ ~ config.paused
    /\ Matches(maker, taker, price, size) /\ InTime(maker) /\ InTime(taker)
    /\ ~ IsSet(maker) /\ ~ IsSet(taker)
    /\ ~ with_maker /\ ~ with_taker /\ DelayPassed(maker, taker, with_maker, with_taker)
    /\ LegAllowed(Books, os, m, maker.trader, Delta(maker, size), price)
    /\ Becomes(Leg(Books, m, maker.trader, Delta(maker, size), price))
    /\ nonce_page' = Mark(maker, taker)
    /\ fills' = Counted(maker, taker)
    /\ UNCHANGED <<admin, engine_pool, vault_gate, venue_authorized, config, relayers,
                   snapshot, now>>

\* settle_one.  The engine's market account m is the operator's choice.
SettleOne(op, maker, taker, price, size, with_maker, with_taker, m) ==
    LET maker_fee == MakerFee(maker, with_maker, price, size)
        taker_fee == TakerFee(taker, with_taker, m, price, size)
    IN  /\ op \in relayers
        /\ ~ config.paused
        /\ Matches(maker, taker, price, size)
        /\ InTime(maker) /\ InTime(taker)
        /\ ~ IsSet(maker) /\ ~ IsSet(taker)
        /\ with_maker => Committed(maker)
        /\ with_taker => Committed(taker)
        /\ DelayPassed(maker, taker, with_maker, with_taker)
        /\ {maker_fee, taker_fee} \subseteq U64 /\ size \in I64
        /\ FeePayable(ledger, maker.trader, config.fee_recipient, maker_fee)
        /\ FeePayable(Paid(ledger, maker.trader, config.fee_recipient, maker_fee),
                      taker.trader, config.fee_recipient, taker_fee)
        /\ \E b \in {FeesPaid(maker, taker, maker_fee, taker_fee)} :
              /\ LegAllowed(b, os, m, maker.trader, Delta(maker, size), price)
              /\ \E half \in {Leg(b, m, maker.trader, Delta(maker, size), price)} :
                    /\ LegAllowed(half, os, m, taker.trader, Delta(taker, size), price)
                    /\ Becomes(Leg(half, m, taker.trader, Delta(taker, size), price))
        /\ nonce_page' = Mark(maker, taker)
        /\ fills' = Counted(maker, taker)
        /\ UNCHANGED <<admin, engine_pool, vault_gate, venue_authorized, config, relayers,
                       snapshot, now>>

--------------------------------------------------------------------------------
\* The owner and the clock

Configured(key, new_config) ==
    /\ key = config.owner
    /\ config' = new_config
    /\ UNCHANGED <<vars, venue_authorized, relayers, nonce_page, snapshot, now, fills>>

SetFees(key, fees) ==
    Configured(key, [config EXCEPT !.maker_fee_bps = fees[1], !.taker_fee_bps = fees[2]])

SetSettlementDelay(key, delays) ==
    Configured(key, [config EXCEPT !.min_settlement_delay = delays[1],
                                   !.max_settlement_delay = delays[2]])

SetDynamicSpreadEnabled(key, enabled) ==
    Configured(key, [config EXCEPT !.dynamic_spread_enabled = enabled])

SetDynamicSpreadTiers(key, tiers) == Configured(key, [config EXCEPT !.tiers = tiers])

SetFeeRecipient(key, recipient) == Configured(key, [config EXCEPT !.fee_recipient = recipient])

\* pause and unpause, which never fail
SetSettlementPaused(key, is_paused) == Configured(key, [config EXCEPT !.paused = is_paused])

TransferSettlement(key, new_owner) ==
    Configured(key, [config EXCEPT !.pending_owner = new_owner])

AcceptSettlement(key) ==
    /\ key = config.pending_owner
    /\ config' = [config EXCEPT !.owner = key, !.pending_owner = NoKey]
    /\ UNCHANGED <<vars, venue_authorized, relayers, nonce_page, snapshot, now, fills>>

SetRelayer(key, op, status) ==
    /\ key = config.owner
    /\ relayers' = IF status THEN relayers \cup {op} ELSE relayers \ {op}
    /\ UNCHANGED <<vars, venue_authorized, config, nonce_page, snapshot, now, fills>>

Tick ==
    /\ now < LastTime
    /\ now' = now + 1
    /\ UNCHANGED <<vars, venue_authorized, config, relayers, nonce_page, snapshot, fills>>

--------------------------------------------------------------------------------
RelayerStep ==
    \E op \in Relayers :
        \/ \E o \in SignedOrders : CommitOrder(op, o)
        \/ \E pair \in Pairs, price \in Prices, m \in Markets, with_maker, with_taker \in BOOLEAN :
              \E size \in 1 .. pair[1].size :
                  SettleOne(op, pair[1], pair[2], price, size, with_maker, with_taker, m)

SettlementOwnerStep ==
    \E key \in Relayers :
        \/ \E fees \in FeeChoices : SetFees(key, fees)
        \/ \E delays \in DelayChoices : SetSettlementDelay(key, delays)
        \/ \E tiers \in TierChoices : SetDynamicSpreadTiers(key, tiers)
        \/ \E recipient \in FeeRecipients : SetFeeRecipient(key, recipient)
        \/ \E flag \in BOOLEAN :
              \/ SetSettlementPaused(key, flag)
              \/ SetDynamicSpreadEnabled(key, flag)
              \/ \E op \in Relayers : SetRelayer(key, op, flag)
        \/ \E new_owner \in Relayers : TransferSettlement(key, new_owner)
        \/ AcceptSettlement(key)

\* The vault's owner revokes the venue's authority, or restores it.
SetVenueAuthorized(status) ==
    /\ venue_authorized' = status
    /\ UNCHANGED <<vars, settlement>>

\* What the rest of the system does to positions meanwhile.
EngineStep ==
    /\ \/ \E m \in Markets, price \in Prices : UpdateMarkPrice(os, m, price)
       \/ \E m \in Markets, t \in Traders, keeper \in FeeRecipients :
             LiquidatePosition(os, m, t, keeper, Insurance)
    /\ UNCHANGED <<venue_authorized, settlement>>

\* Everything an owner sets but the ownership.
Policy(c) == [c EXCEPT !.owner = NoKey, !.pending_owner = NoKey]

OwnersStep ==
    /\ changes < MaxChanges
    /\ \/ SettlementOwnerStep
       \/ \E status \in BOOLEAN : SetVenueAuthorized(status)
    /\ changes' = IF UNCHANGED <<Policy(config), relayers, venue_authorized>>
                  THEN changes ELSE changes + 1

SettlementNext ==
    \/ (RelayerStep \/ EngineStep \/ Tick) /\ UNCHANGED changes
    \/ OwnersStep

\* The deployment lists the markets before this program is initialized.
SettlementStart == Deployed(Markets) /\ SettlementInit

SettlementSpec == SettlementStart /\ [][SettlementNext]_svars

--------------------------------------------------------------------------------
(* Properties *)

\* A nonce settles at most once, however often its order or another order
\* with the same nonce is submitted, and a nonce nobody settled is still
\* free: neither the pages nor the bits within a page collide.
NoncesExact ==
    \A o \in SignedOrders : fills[<<o.trader, o.nonce>>] = (IF IsSet(o) THEN 1 ELSE 0)

\* The books of settlement and engine together: nonces spent once, and the
\* engine's counters and margins exact however its handlers were routed to.
SettlementInv ==
    /\ SettlementTypeOK
    /\ NoncesExact
    /\ OpenInterestExact
    /\ MarginIsRequired

\* A settlement gives one side what it takes from the other: the sizes of a
\* market still add up to what they did, whichever engine instructions the
\* two sides became, and no value is created in the vault.
TradesMatch ==
    [][fills' # fills =>
          /\ \A m \in Markets : NetSize(position', m) = NetSize(position, m)
          /\ TotalBalance(ledger') = TotalBalance(ledger)
          /\ TotalCollateral(ledger') = TotalCollateral(ledger)]_svars

\* Apart from liquidations a position changes only by an order its trader
\* signed, one that had not settled before and has now, by no more than its
\* size, on its side, before its expiry; and a new position is entered at a
\* price within the order's limit.
SignedTermsKept ==
    [][\A m \in Markets, t \in Traders :
        LET old == position[m][t]
            new == position'[m][t]
            delta == new.size - old.size
        IN  (fills' # fills /\ new # old) =>
                \E o \in SignedOrders :
                    /\ o.trader = t
                    /\ fills[<<t, o.nonce>>] = 0 /\ fills'[<<t, o.nonce>>] = 1
                    /\ now <= o.expiry
                    /\ Abs(delta) <= o.size
                    /\ delta > 0 <=> o.is_long
                    /\ old.size = 0 =>
                          IF o.is_long THEN new.entry_price <= o.price
                                       ELSE new.entry_price >= o.price]_svars

\* The pool's surplus over the margins grows by no more than what the traded
\* positions leave behind at the price of the trade.
StrandsNothing(price) ==
    PoolSurplus(ledger', position') - PoolSurplus(ledger, position)
        <= SumTo([t \in Traders |-> SumTo([m \in Markets |->
              LeftBehind(position[m][t], position'[m][t], price)], NumMarkets)], NumTraders)

\* A trade that shrinks, closes or flips a position gives the freed margin
\* back, at a price both settled orders allow.  Fees do not go to the pool.
NothingStranded ==
    [][fills' # fills /\ config.fee_recipient # Pool =>
          \E maker, taker \in SignedOrders, price \in Prices :
              /\ \A o \in {maker, taker} : fills'[<<o.trader, o.nonce>>]
                                              # fills[<<o.trader, o.nonce>>]
              /\ maker.is_long # taker.is_long /\ WithinPrices(maker, taker, price)
              /\ StrandsNothing(price)]_svars

\* What a commit promised is what is charged: while a settlement delay is in
\* force the fees of a settlement are bounded by the fees and the highest
\* spread in the snapshots of the two orders it settles, on what they traded,
\* whatever the owner has set since.  The row that fees go to holds nothing
\* else of the trade: it is neither a trader's nor the pool's.
FeesAsCommitted ==
    [][(/\ fills' # fills
        /\ config.min_settlement_delay > 0
        /\ config.fee_recipient \notin Traders \cup {Pool}) =>
          \E maker, taker \in SignedOrders, m \in Markets :
              LET traded == Abs(position'[m][maker.trader].size - position[m][maker.trader].size)
                  limit == IF maker.is_long THEN maker.price ELSE taker.price
              IN  /\ Committed(maker) /\ Committed(taker)
                  /\ maker.trader # taker.trader
                  /\ \A o \in {maker, taker} : fills'[<<o.trader, o.nonce>>]
                                                  # fills[<<o.trader, o.nonce>>]
                  /\ Spendable(ledger', config.fee_recipient)
                        - Spendable(ledger, config.fee_recipient)
                      <= Share(snapshot[maker].maker_fee_bps + snapshot[taker].taker_fee_bps
                                   + snapshot[taker].tiers[3], Notional(traded, limit))]_svars

\* Lowering the delay does not speed up orders committed under a longer one:
\* while a delay is in force a settlement waits what the later of its two
\* commits promised.
DelayAsCommitted ==
    [][(fills' # fills /\ config.min_settlement_delay > 0) =>
          \E maker, taker \in SignedOrders :
              /\ Committed(maker) /\ Committed(taker)
              /\ maker.trader # taker.trader
              /\ \A o \in {maker, taker} : fills'[<<o.trader, o.nonce>>]
                                              # fills[<<o.trader, o.nonce>>]
              /\ \E o \in {maker, taker} :
                    /\ \A p \in {maker, taker} : snapshot[p].commit_time <= snapshot[o].commit_time
                    /\ now >= snapshot[o].commit_time + snapshot[o].min_settlement_delay]_svars

\* A commit is final: nothing changes its time or its terms, a second commit
\* of the same order included.
CommitsFinal ==
    [][\A o \in SignedOrders : Committed(o) => snapshot'[o] = snapshot[o]]_svars

\* A commit binds: fees, delay and snapshot are the ones of its own time.
CommitsBind == FeesAsCommitted /\ DelayAsCommitted /\ CommitsFinal
================================================================================
