------------------------------ MODULE VenueProofs ------------------------------
(***************************************************************************)
(* What the programs that trade through the engine promise, on every       *)
(* engine whose books are sound and for all of their parameters.           *)
(*                                                                         *)
(* The relayed venue: a nonce settles once, both sides of a trade balance, *)
(* signed terms and committed terms hold, and no margin is stranded in the *)
(* pool.  The dark pool: an intent is filled once, by one response to it,  *)
(* on the agreed terms and at the fee of the day it was posted; what was   *)
(* withdrawn stays withdrawn; and a reputation is exactly what its agent   *)
(* settled and withdrew.  The trading vault: no deposit, withdrawal or fee *)
(* takes from those who stay, a performance fee is charged on new highs    *)
(* only, and a holder whose cooldown is over can leave.                    *)
(***************************************************************************)
EXTENDS OrderSettlement, DarkPool, TradingVault, PerpEngineProofs, SequenceTheorems

\* A venue may start on an engine that already has positions: on any engine
\* whose books are sound.
SettlementOnAnyEngine == IInv /\ SettlementInit /\ [][SettlementNext]_svars

\* What a commit writes.
SnapshotRecord ==
    [commit_time : Nat \ {0}, maker_fee_bps : 0 .. MAX_FEE_BPS, taker_fee_bps : 0 .. MAX_FEE_BPS,
     min_settlement_delay : 0 .. MAX_DELAY_SECS, dynamic_spread_enabled : BOOLEAN,
     tiers : TierChoices]

\* The inductive invariant: the engine's, and that every snapshot is either
\* absent or complete, so that a commit time other than zero tells them apart.
SInv ==
    /\ IInv
    /\ SettlementTypeOK
    /\ NoncesExact
    /\ snapshot \in [SignedOrders -> SnapshotRecord \cup {NoSnapshot}]

--------------------------------------------------------------------------------
(* Operators *)

ConfigRecord ==
    [owner : Keys \cup Relayers, pending_owner : Keys \cup Relayers \cup {NoKey},
     fee_recipient : Accounts, paused : BOOLEAN,
     maker_fee_bps : 0 .. MAX_FEE_BPS, taker_fee_bps : 0 .. MAX_FEE_BPS,
     min_settlement_delay : 0 .. MAX_DELAY_SECS,
     max_settlement_delay : 0 .. MAX_DELAY_SECS,
     dynamic_spread_enabled : BOOLEAN, tiers : TierChoices]
ConfigSound(c) == c \in ConfigRecord /\ c.min_settlement_delay <= c.max_settlement_delay

LEMMA OrderFacts ==
    ASSUME NEW o \in SignedOrders
    PROVE  /\ o.trader \in Traders /\ o.market_id \in Markets /\ o.is_long \in BOOLEAN
           /\ o.size \in Nat /\ o.price \in Nat /\ o.nonce \in Nat
           /\ o.expiry \in Nat /\ o.signed_at \in Nat
           /\ Page(o.nonce) \in Pages /\ <<o.trader, o.nonce>> \in TraderNonces
BY SettlementAssumption, VenueAssumption, LedgerAssumption DEF Orders, U64, Now, Pages, TraderNonces

\* A page and a bit within it make up the nonce.
LEMMA PageAndBit ==
    ASSUME NEW n \in Nat, NEW k \in Nat
    PROVE  /\ Bit(n) \in 0 .. PageBits - 1
           /\ Page(n) = Page(k) /\ Bit(n) = Bit(k) => n = k
<1> DEFINE d == PageBits
           q == n \div d
           r == n % d
           s == k \div d
           v == k % d
<1>1. d \in Nat \ {0}
    BY SettlementAssumption
<1> HIDE DEF d
<1>2. /\ n = d * q + r /\ k = d * s + v
      /\ r \in 0 .. d - 1
    BY <1>1
<1>3. Page(n) = q /\ Page(k) = s /\ Bit(n) = r /\ Bit(k) = v
    BY DEF Page, Bit, d
<1> HIDE DEF q, r, s, v
<1>4. QED
    BY <1>2, <1>3 DEF d

\* Two quotients rounded down add up to at most the quotient of the sum.
LEMMA DivSuperadditive ==
    ASSUME NEW x \in Nat, NEW y \in Nat, NEW d \in Nat \ {0}
    PROVE  (x \div d) + (y \div d) <= (x + y) \div d
<1> DEFINE a == x \div d
           b == y \div d
           c == (x + y) \div d
<1>1. /\ a \in Nat /\ b \in Nat /\ c \in Nat
      /\ d * a <= x /\ d * b <= y /\ x + y < d * c + d
    OBVIOUS
<1> HIDE DEF a, b, c
<1>2. SUFFICES ASSUME a + b > c PROVE FALSE
    BY <1>1 DEF a, b, c
<1>3. d * (c + 1) <= d * (a + b)
    <2> DEFINE g == a + b
               h == c + 1
    <2>1. g \in Nat /\ h \in Nat /\ h <= g
        BY <1>1, <1>2
    <2> HIDE DEF g, h
    <2>2. d * h <= d * g
        BY <2>1, ProductMonotone
    <2>3. QED
        BY <2>2 DEF g, h
<1>4. d * (c + 1) = d * c + d /\ d * (a + b) = d * a + d * b
    BY <1>1
<1>5. d * a \in Nat /\ d * b \in Nat /\ d * c \in Nat
    BY <1>1
<1> DEFINE da == d * a
           db == d * b
           dc == d * c
<1>6. /\ da <= x /\ db <= y /\ x + y < dc + d /\ dc + d <= da + db
      /\ da \in Nat /\ db \in Nat /\ dc \in Nat
    BY <1>1, <1>3, <1>4, <1>5
<1> HIDE DEF da, db, dc
<1>7. QED
    BY <1>6

\* Two fees on an amount stay within one fee at their joint rate, or a higher
\* rate, on that amount or a larger one.
LEMMA FeesWithin ==
    ASSUME NEW r1 \in Nat, NEW r2 \in Nat, NEW r \in Nat, r1 + r2 <= r,
           NEW n \in Nat, NEW k \in Nat, n <= k
    PROVE  Share(r1, n) + Share(r2, n) <= Share(r, k)
<1> DEFINE x == n * r1
           y == n * r2
           z == n * r
           w == k * r
<1>1. BPS \in Nat \ {0}
    BY EngineAssumption
<1>2. x \in Nat /\ y \in Nat /\ z \in Nat /\ w \in Nat
    OBVIOUS
<1>3. x + y <= z
    <2> DEFINE q == r1 + r2
    <2>1. q \in Nat /\ q <= r
        OBVIOUS
    <2>2. x + y = n * q
        OBVIOUS
    <2> HIDE DEF q, x, y
    <2>3. n * q <= n * r
        BY <2>1, ProductMonotone
    <2>4. QED
        BY <2>2, <2>3
<1>4. z <= w
    <2>1. r * n <= r * k
        BY ProductMonotone
    <2>2. r * n = n * r /\ r * k = k * r
        OBVIOUS
    <2>3. QED
        BY <2>1, <2>2
<1> DEFINE xy == x + y
<1>5. Share(r1, n) = x \div BPS /\ Share(r2, n) = y \div BPS /\ Share(r, k) = w \div BPS
    BY DEF Share
<1>6. xy \in Nat /\ xy <= w
    BY <1>2, <1>3, <1>4
<1>7. (x \div BPS) + (y \div BPS) <= xy \div BPS
    <2> HIDE DEF x, y
    <2>1. QED
        BY <1>1, <1>2, DivSuperadditive
<1> HIDE DEF x, y, w, xy
<1>8. xy \div BPS <= w \div BPS
    BY <1>1, <1>2, <1>6, DivMonotone
<1>9. x \div BPS \in Nat /\ y \div BPS \in Nat /\ xy \div BPS \in Nat /\ w \div BPS \in Nat
    BY <1>1, <1>2, <1>6, DivFacts
<1>10. QED
    BY <1>5, <1>7, <1>8, <1>9

LEMMA NotionalMonotone ==
    ASSUME NEW s \in Nat, NEW price \in Nat, NEW limit \in Nat, price <= limit
    PROVE  Notional(s, price) <= Notional(s, limit)
<1> DEFINE x == s * price
           y == s * limit
<1>1. x \in Nat /\ y \in Nat /\ x <= y
    BY ProductMonotone
<1> HIDE DEF x, y
<1>2. x \div SIZE_PRECISION <= y \div SIZE_PRECISION
    BY <1>1, EngineAssumption, DivMonotone
<1>3. QED
    BY <1>2 DEF Notional, x, y

\* The spread charged is one of the tiers, of which the third is the highest.
LEMMA SpreadWithinTiers ==
    ASSUME NEW mkt, NEW is_long \in BOOLEAN, NEW terms, terms.tiers \in TierChoices
    PROVE  /\ SpreadExtra(mkt, is_long, terms) \in Nat
           /\ SpreadExtra(mkt, is_long, terms) <= terms.tiers[3]
           /\ terms.tiers[3] \in Nat
<1>1. /\ terms.tiers[1] \in Nat /\ terms.tiers[2] \in Nat /\ terms.tiers[3] \in Nat
      /\ terms.tiers[1] <= terms.tiers[2] /\ terms.tiers[2] <= terms.tiers[3]
    BY SettlementAssumption
<1>2. SpreadExtra(mkt, is_long, terms) \in {0, terms.tiers[1], terms.tiers[2], terms.tiers[3]}
    BY DEF SpreadExtra
<1>3. QED
    BY <1>1, <1>2

--------------------------------------------------------------------------------
(* Sums over a market and over all positions *)

Replace(pos, m, t, p) == [pos EXCEPT ![m][t] = p]
SizesIn(pos, m) == [t \in Traders |-> pos[m][t].size]

\* Replacing one position changes the net size of its market by the change
\* of that size, and of no other market.
LEMMA NetSizeUpdate ==
    ASSUME NEW pos \in PositionTables, NEW m \in Markets, NEW t \in Traders,
           NEW p \in PositionRecord
    PROVE  LET after == Replace(pos, m, t, p) IN
           /\ after \in PositionTables
           /\ NetSize(pos, m) \in Int
           /\ NetSize(after, m) = NetSize(pos, m) - pos[m][t].size + p.size
           /\ \A n \in Markets \ {m} : NetSize(after, n) = NetSize(pos, n)
<1> DEFINE after == Replace(pos, m, t, p)
           f == SizesIn(pos, m)
           v == p.size
<1>1. /\ NumTraders \in Nat /\ t \in 1 .. NumTraders /\ Traders = 1 .. NumTraders
    BY EngineAssumption DEF Traders
<1>2. v \in Int /\ \A i \in Traders : pos[m][i].size \in Int
    BY LedgerAssumption DEF PositionTables, PositionRecord, I64, MaxI64
<1>3. after \in PositionTables
    BY DEF PositionTables, Replace
<1>4. f \in [1 .. NumTraders -> Int] /\ f[t] = pos[m][t].size
    BY <1>1, <1>2 DEF SizesIn
<1>5. SizesIn(after, m) = [f EXCEPT ![t] = v]
    BY DEF SizesIn, PositionTables, Replace
<1>6. \A n \in Markets \ {m} : SizesIn(after, n) = SizesIn(pos, n)
    BY DEF SizesIn, PositionTables, Replace
<1> HIDE DEF f, v, after
<1>7. SumTo([f EXCEPT ![t] = v], NumTraders) = SumTo(f, NumTraders) - f[t] + v
      /\ SumTo(f, NumTraders) \in Int
    BY <1>1, <1>2, <1>4, SumUpdate, SumType
<1>8. QED
    BY <1>3, <1>4, <1>5, <1>6, <1>7 DEF NetSize, SizesIn, f, v, after

\* Replacing the positions of two traders in a market: nothing else changes,
\* and if the sizes balance neither does any net size.
LEMMA TwoPositions ==
    ASSUME NEW pos \in PositionTables, NEW m \in Markets, NEW t \in Traders, NEW u \in Traders, t # u,
           NEW p \in PositionRecord, NEW q \in PositionRecord
    PROVE  LET after == Replace(Replace(pos, m, t, p), m, u, q) IN
           /\ after \in PositionTables
           /\ after[m][t] = p /\ after[m][u] = q
           /\ \A n \in Markets, v \in Traders :
                 n # m \/ v \notin {t, u} => after[n][v] = pos[n][v]
           /\ p.size + q.size = pos[m][t].size + pos[m][u].size =>
                 \A n \in Markets : NetSize(after, n) = NetSize(pos, n)
<1> DEFINE mid == Replace(pos, m, t, p)
           after == Replace(mid, m, u, q)
<1>1. /\ mid[m][u] = pos[m][u]
      /\ after[m][t] = p /\ after[m][u] = q
      /\ \A n \in Markets, v \in Traders :
            n # m \/ v \notin {t, u} => after[n][v] = pos[n][v]
    BY DEF PositionTables, Replace
<1>3. /\ mid \in PositionTables
      /\ NetSize(pos, m) \in Int
      /\ NetSize(mid, m) = NetSize(pos, m) - pos[m][t].size + p.size
      /\ \A n \in Markets \ {m} : NetSize(mid, n) = NetSize(pos, n)
    BY NetSizeUpdate
<1> HIDE DEF mid
<1>4. /\ after \in PositionTables
      /\ NetSize(after, m) = NetSize(mid, m) - mid[m][u].size + q.size
      /\ \A n \in Markets \ {m} : NetSize(after, n) = NetSize(mid, n)
    BY <1>1, <1>3, NetSizeUpdate
<1> DEFINE x == pos[m][t].size
           y == pos[m][u].size
           v == p.size
           w == q.size
           k == NetSize(pos, m)
           l == NetSize(mid, m)
           h == NetSize(after, m)
<1>5. x \in Int /\ y \in Int /\ v \in Int /\ w \in Int
    BY LedgerAssumption DEF PositionTables, PositionRecord, I64, MaxI64
<1>6. k \in Int /\ l = k - x + v /\ h = l - y + w
    BY <1>1, <1>3, <1>4
<1> HIDE DEF x, y, v, w, k, l, h
<1>7. v + w = x + y => h = k
    BY <1>5, <1>6
<1>8. p.size + q.size = pos[m][t].size + pos[m][u].size =>
          \A n \in Markets : NetSize(after, n) = NetSize(pos, n)
    BY <1>3, <1>4, <1>7 DEF x, y, v, w, k, h
<1> HIDE DEF after
<1>9. QED
    BY <1>1, <1>4, <1>8 DEF after, mid

\* The total of non-negative amounts per trader and market is at least what
\* two traders have in one market.
LEMMA TwoOfTotal ==
    ASSUME NEW amount, \A t \in Traders, m \in Markets : amount[t][m] \in Nat,
           NEW m \in Markets, NEW t \in Traders, NEW u \in Traders, t # u
    PROVE  LET all == SumTo([v \in Traders |-> SumTo([n \in Markets |-> amount[v][n]], NumMarkets)],
                            NumTraders)
           IN  all \in Nat /\ amount[t][m] + amount[u][m] <= all
<1> DEFINE row(v) == [n \in Markets |-> amount[v][n]]
           total == [v \in Traders |-> SumTo(row(v), NumMarkets)]
<1>1. /\ NumTraders \in Nat /\ Traders = 1 .. NumTraders
      /\ NumMarkets \in Nat /\ Markets = 1 .. NumMarkets
    BY EngineAssumption DEF Traders, Markets
<1>2. ASSUME NEW v \in Traders
      PROVE  SumTo(row(v), NumMarkets) \in Nat /\ amount[v][m] <= SumTo(row(v), NumMarkets)
    <2> DEFINE f == row(v)
    <2>1. f \in [1 .. NumMarkets -> Nat] /\ f[m] = amount[v][m]
        BY <1>1
    <2> HIDE DEF f
    <2>2. SumTo(f, NumMarkets) \in Nat /\ f[m] <= SumTo(f, NumMarkets)
        BY <1>1, <2>1, SumBound
    <2>3. QED
        BY <2>1, <2>2 DEF f
<1>3. /\ total \in [1 .. NumTraders -> Nat]
      /\ amount[t][m] <= total[t] /\ amount[u][m] <= total[u]
      /\ total[t] \in Nat /\ total[u] \in Nat
    BY <1>1, <1>2
<1>4. amount[t][m] \in Nat /\ amount[u][m] \in Nat
    OBVIOUS
<1> HIDE DEF total
<1>5. total[t] + total[u] <= SumTo(total, NumTraders) /\ SumTo(total, NumTraders) \in Nat
    BY <1>1, <1>3, TwoOfSum, SumBound
<1>6. amount[t][m] + amount[u][m] <= SumTo(total, NumTraders)
    BY <1>3, <1>4, <1>5
<1>7. QED
    BY <1>5, <1>6 DEF total

--------------------------------------------------------------------------------
(* A settlement *)

\* A book with another ledger is as sound.
LEMMA OtherLedger ==
    ASSUME NEW b, Sound(b), NEW led \in Ledgers
    PROVE  /\ Sound(WithLedger(b, led))
           /\ WithLedger(b, led).position = b.position
           /\ WithLedger(b, led).market = b.market
           /\ WithLedger(b, led).ledger = led
<1>1. b \in BookRecord
    BY DEF Sound
<1> DEFINE c == WithLedger(b, led)
<1>2. c \in BookRecord /\ c.position = b.position /\ c.market = b.market /\ c.ledger = led
    BY <1>1 DEF WithLedger, BookRecord
<1> HIDE DEF c
<1>3. Sound(c)
    BY <1>2 DEF Sound, InterestExact
<1>4. QED
    BY <1>2, <1>3 DEF c

\* The two fees: a ledger with the same totals, where the two traders have
\* paid and the recipient has received.
LEMMA FeeStep ==
    ASSUME NEW led \in Ledgers, vault_gate \in VaultGates,
           NEW t \in Traders, NEW u \in Traders, t # u, NEW to \in Accounts,
           NEW f1 \in Nat, NEW f2 \in Nat,
           FeePayable(led, t, to, f1), FeePayable(Paid(led, t, to, f1), u, to, f2)
    PROVE  LET after == Paid(Paid(led, t, to, f1), u, to, f2)
           IN  /\ after \in Ledgers
               /\ TotalBalance(after) = TotalBalance(led)
               /\ TotalCollateral(after) = TotalCollateral(led)
               /\ to \notin Traders => Spendable(after, to) = Spendable(led, to) + f1 + f2
               /\ \A a \in Accounts \ {t, u, to} : Spendable(after, a) = Spendable(led, a)
<1> DEFINE mid == Paid(led, t, to, f1)
           after == Paid(mid, u, to, f2)
<1>1. t \in Accounts /\ u \in Accounts
    BY EngineAssumption, LedgerAssumption DEF Accounts, Traders
<1>2. /\ mid \in Ledgers
      /\ TotalBalance(mid) = TotalBalance(led)
      /\ TotalCollateral(mid) = TotalCollateral(led)
      /\ \A a \in Accounts :
            /\ Spendable(led, a) \in Nat
            /\ Spendable(mid, a) = IF a = t THEN Spendable(led, a) - f1
                                   ELSE IF a = to THEN Spendable(led, a) + f1
                                   ELSE Spendable(led, a)
    BY <1>1, FeeFacts
<1>3. FeePayable(mid, u, to, f2)
    OBVIOUS
<1> HIDE DEF mid
<1>4. /\ after \in Ledgers
      /\ TotalBalance(after) = TotalBalance(mid)
      /\ TotalCollateral(after) = TotalCollateral(mid)
      /\ \A a \in Accounts :
            Spendable(after, a) = IF a = u THEN Spendable(mid, a) - f2
                                  ELSE IF a = to THEN Spendable(mid, a) + f2
                                  ELSE Spendable(mid, a)
    BY <1>1, <1>2, <1>3, FeeFacts
<1> HIDE DEF after
<1>5. /\ to \notin Traders => Spendable(after, to) = Spendable(led, to) + f1 + f2
      /\ \A a \in Accounts \ {t, u, to} : Spendable(after, a) = Spendable(led, a)
    BY <1>2, <1>4
<1>6. QED
    BY <1>2, <1>4, <1>5 DEF mid, after

\* What a settlement does to the books of engine and vault.
Exchanged(maker, taker, m, price, size, fees) ==
    /\ IInv'
    /\ TotalBalance(ledger') = TotalBalance(ledger)
    /\ TotalCollateral(ledger') = TotalCollateral(ledger)
    /\ config.fee_recipient \notin Traders \cup {Pool} =>
          Spendable(ledger', config.fee_recipient) = Spendable(ledger, config.fee_recipient) + fees
    /\ \E p, q \in PositionRecord :
          LET old1 == position[m][maker.trader]
              old2 == position[m][taker.trader]
          IN  /\ position' = Replace(Replace(position, m, maker.trader, p), m, taker.trader, q)
              /\ p.size = old1.size + Delta(maker, size)
              /\ q.size = old2.size + Delta(taker, size)
              /\ old1.size = 0 => p.entry_price = price
              /\ old2.size = 0 => q.entry_price = price
              /\ config.fee_recipient # Pool =>
                    PoolSurplus(ledger', position') - PoolSurplus(ledger, position)
                        <= LeftBehind(old1, p, price) + LeftBehind(old2, q, price)

LEMMA ExchangeStep ==
    ASSUME SInv, NEW op, NEW maker \in SignedOrders, NEW taker \in SignedOrders,
           NEW price \in Prices, NEW size \in Nat, NEW with_maker, NEW with_taker,
           NEW m \in Markets,
           SettleOne(op, maker, taker, price, size, with_maker, with_taker, m)
    PROVE  LET fees == MakerFee(maker, with_maker, price, size)
                         + TakerFee(taker, with_taker, m, price, size)
           IN  Exchanged(maker, taker, m, price, size, fees)
<1> DEFINE t == maker.trader
           u == taker.trader
           to == config.fee_recipient
           f1 == MakerFee(maker, with_maker, price, size)
           f2 == TakerFee(taker, with_taker, m, price, size)
           paid == Paid(Paid(ledger, t, to, f1), u, to, f2)
           b == WithLedger(Books, paid)
           d1 == Delta(maker, size)
           d2 == Delta(taker, size)
           half == Leg(b, m, t, d1, price)
           after == Leg(half, m, u, d2, price)
<1>1. /\ t # u
      /\ f1 \in U64 /\ f2 \in U64
      /\ FeePayable(ledger, t, to, f1) /\ FeePayable(Paid(ledger, t, to, f1), u, to, f2)
      /\ UNCHANGED <<admin, engine_pool, vault_gate>>
    BY DEF SettleOne, Matches, Opposite
<1>2. /\ LegAllowed(b, os, m, t, d1, price)
      /\ LegAllowed(half, os, m, u, d2, price)
      /\ Becomes(after)
    BY DEF SettleOne, FeesPaid
<1>3. /\ t \in Traders /\ u \in Traders /\ to \in Accounts /\ price \in U64
      /\ d1 \in Int /\ d2 \in Int
      /\ IInv /\ vault_gate \in VaultGates /\ Sound(Books) /\ ledger \in Ledgers
    <2>1. t \in Traders /\ u \in Traders
        BY OrderFacts
    <2>4. d1 \in Int /\ d2 \in Int
        BY DEF Delta
    <2>2. to \in Accounts /\ price \in U64
        BY EngineAssumption DEF SInv, SettlementTypeOK
    <2>3. IInv /\ vault_gate \in VaultGates /\ Sound(Books) /\ ledger \in Ledgers
        BY SoundBooks DEF SInv, AdminTyped, IInv, TypeOK
    <2>5. QED
        BY <2>1, <2>2, <2>3, <2>4
<1>4. f1 \in Nat /\ f2 \in Nat
    BY <1>1, LedgerAssumption DEF U64
<1> HIDE DEF f1, f2, t, u, to, d1, d2
<1>5. /\ paid \in Ledgers
      /\ TotalBalance(paid) = TotalBalance(ledger)
      /\ TotalCollateral(paid) = TotalCollateral(ledger)
      /\ to \notin Traders => Spendable(paid, to) = Spendable(ledger, to) + f1 + f2
      /\ \A a \in Accounts \ {t, u, to} : Spendable(paid, a) = Spendable(ledger, a)
    BY <1>1, <1>3, <1>4, FeeStep
<1> HIDE DEF paid
<1>6. /\ Books.position = position /\ Books.ledger = ledger /\ Books.market = market
      /\ Sound(b) /\ b.position = position /\ b.ledger = paid
    <2>1. Books.position = position /\ Books.ledger = ledger /\ Books.market = market
        BY DEF Books
    <2> DEFINE c == Books
    <2> HIDE DEF c
    <2>2. Sound(c)
        BY <1>3 DEF c
    <2>3. Sound(WithLedger(c, paid)) /\ WithLedger(c, paid).position = c.position
          /\ WithLedger(c, paid).ledger = paid
        BY <1>5, <2>2, OtherLedger
    <2>4. QED
        BY <2>1, <2>3 DEF c
<1> HIDE DEF b
<1>7. \E p, q \in PositionRecord :
          /\ p.size = b.position[m][t].size + d1
          /\ q.size = b.position[m][u].size + d2
          /\ PairDone(b, after, m, t, u, p, q, price)
    <2> HIDE DEF half
    <2>1. half = Leg(b, m, t, d1, price)
        BY DEF half
    <2>2. QED
        BY <1>1, <1>2, <1>3, <1>6, <2>1, PairStep
<1> HIDE DEF after
<1>8. PICK p \in PositionRecord, q \in PositionRecord :
          /\ p.size = b.position[m][t].size + d1
          /\ q.size = b.position[m][u].size + d2
          /\ PairDone(b, after, m, t, u, p, q, price)
    BY <1>7
<1>9. /\ market' = after.market /\ position' = after.position /\ ledger' = after.ledger
      /\ Sound(after) /\ after \in BookRecord
    BY <1>2, <1>8 DEF Becomes, PairDone, Sound
<1>10. IInv'
    <2>1. Books' = after
        BY <1>9 DEF Books, BookRecord
    <2>2. Sound(Books')
        BY <1>9, <2>1
    <2>3. Sound(Books)'
        BY <2>2 DEF Sound, InterestExact, PositionSound, MarketSound
    <2>4. AdminTyped'
        BY <1>1, <1>3, SoundBooks DEF AdminTyped, admin
    <2>5. QED
        BY <2>3, <2>4, SoundBooks
<1>11. TotalBalance(ledger') = TotalBalance(ledger)
       /\ TotalCollateral(ledger') = TotalCollateral(ledger)
    BY <1>5, <1>6, <1>8, <1>9 DEF PairDone
<1>12. to \notin Traders \cup {Pool} => Spendable(ledger', to) = Spendable(ledger, to) + f1 + f2
    BY <1>3, <1>5, <1>6, <1>8, <1>9 DEF PairDone
<1>13. to # Pool =>
          PoolSurplus(ledger', position') - PoolSurplus(ledger, position)
              <= LeftBehind(position[m][t], p, price) + LeftBehind(position[m][u], q, price)
    <2> SUFFICES ASSUME to # Pool
                 PROVE  PoolSurplus(ledger', position') - PoolSurplus(ledger, position)
                            <= LeftBehind(position[m][t], p, price) + LeftBehind(position[m][u], q, price)
        OBVIOUS
    <2>1. Pool \in Accounts \ {t, u, to}
        BY <1>3, EngineAssumption
    <2>2. Spendable(paid, Pool) = Spendable(ledger, Pool)
        BY <1>5, <2>1
    <2>3. PoolSurplus(paid, position) = PoolSurplus(ledger, position)
        BY <2>2 DEF PoolSurplus
    <2>4. PoolSurplus(after.ledger, after.position) - PoolSurplus(b.ledger, b.position)
              <= LeftBehind(b.position[m][t], p, price) + LeftBehind(b.position[m][u], q, price)
        BY <1>8 DEF PairDone
    <2>5. QED
        BY <1>6, <1>9, <2>3, <2>4
<1>14. /\ position' = Replace(Replace(position, m, t, p), m, u, q)
       /\ p.size = position[m][t].size + d1
       /\ q.size = position[m][u].size + d2
       /\ position[m][t].size = 0 => p.entry_price = price
       /\ position[m][u].size = 0 => q.entry_price = price
    BY <1>6, <1>8, <1>9 DEF PairDone, Replace
<1>15. Spendable(ledger, to) + f1 + f2 = Spendable(ledger, to) + (f1 + f2)
    <2>1. Spendable(ledger, to) \in Nat
        BY <1>3, LedgerAssumption DEF Spendable, Ledgers, U64, IInv, TypeOK
    <2>2. QED
        BY <1>4, <2>1
<1> DEFINE fees == f1 + f2
<1> HIDE DEF fees
<1>16. Exchanged(maker, taker, m, price, size, fees)
    <2>1. to \notin Traders \cup {Pool} => Spendable(ledger', to) = Spendable(ledger, to) + fees
        BY <1>12, <1>15 DEF fees
    <2>2. QED
        BY <1>10, <1>11, <1>13, <1>14, <2>1 DEF Exchanged, t, u, to, d1, d2
<1>17. QED
    BY <1>16 DEF fees, f1, f2

--------------------------------------------------------------------------------
(* The invariant *)

\* The two nonces of a settlement, until then free, are spent, and no other is.
LEMMA NonceStep ==
    ASSUME SInv, NEW op, NEW maker \in SignedOrders, NEW taker \in SignedOrders,
           NEW price, NEW size, NEW with_maker, NEW with_taker, NEW m,
           SettleOne(op, maker, taker, price, size, with_maker, with_taker, m)
    PROVE  /\ nonce_page' \in [Traders -> [Pages -> SUBSET (0 .. PageBits - 1)]]
           /\ fills' \in [TraderNonces -> 0 .. 2]
           /\ NoncesExact'
           /\ \A o \in {maker, taker} : /\ fills[<<o.trader, o.nonce>>] = 0
                                        /\ fills'[<<o.trader, o.nonce>>] = 1
<1>1. /\ maker.trader # taker.trader
      /\ ~ IsSet(maker) /\ ~ IsSet(taker)
      /\ nonce_page' = Mark(maker, taker)
      /\ fills' = Counted(maker, taker)
    BY DEF SettleOne, Matches, Opposite
<1>2. /\ nonce_page \in [Traders -> [Pages -> SUBSET (0 .. PageBits - 1)]]
      /\ fills \in [TraderNonces -> 0 .. 2]
      /\ \A o \in SignedOrders : fills[<<o.trader, o.nonce>>] = (IF IsSet(o) THEN 1 ELSE 0)
    BY DEF SInv, SettlementTypeOK, NoncesExact
<1>3. /\ maker.trader \in Traders /\ taker.trader \in Traders
      /\ Page(maker.nonce) \in Pages /\ Page(taker.nonce) \in Pages
      /\ Bit(maker.nonce) \in 0 .. PageBits - 1 /\ Bit(taker.nonce) \in 0 .. PageBits - 1
      /\ <<maker.trader, maker.nonce>> \in TraderNonces
      /\ <<taker.trader, taker.nonce>> \in TraderNonces
    BY OrderFacts, PageAndBit
<1>4. nonce_page' \in [Traders -> [Pages -> SUBSET (0 .. PageBits - 1)]]
    BY <1>1, <1>2, <1>3 DEF Mark
<1>5. ASSUME NEW o \in SignedOrders
      PROVE  IsSet(o)' <=> \/ IsSet(o)
                           \/ <<o.trader, o.nonce>> = <<maker.trader, maker.nonce>>
                           \/ <<o.trader, o.nonce>> = <<taker.trader, taker.nonce>>
    <2>1. o.trader \in Traders /\ Page(o.nonce) \in Pages
        BY OrderFacts
    <2>2. nonce_page'[o.trader][Page(o.nonce)] =
              nonce_page[o.trader][Page(o.nonce)]
                \cup (IF o.trader = maker.trader /\ Page(o.nonce) = Page(maker.nonce)
                      THEN {Bit(maker.nonce)} ELSE {})
                \cup (IF o.trader = taker.trader /\ Page(o.nonce) = Page(taker.nonce)
                      THEN {Bit(taker.nonce)} ELSE {})
        BY <1>1, <1>2, <1>3, <2>1 DEF Mark
    <2>3. \A x \in {maker, taker} :
              Page(o.nonce) = Page(x.nonce) /\ Bit(o.nonce) = Bit(x.nonce) <=> o.nonce = x.nonce
        BY OrderFacts, PageAndBit
    <2>4. QED
        BY <2>2, <2>3 DEF IsSet
<1>6. \A tn \in TraderNonces :
          fills'[tn] = IF tn \in {<<maker.trader, maker.nonce>>, <<taker.trader, taker.nonce>>}
                       THEN AtMost(fills[tn] + 1, 2) ELSE fills[tn]
    BY <1>1 DEF Counted
<1>7. fills' \in [TraderNonces -> 0 .. 2]
    <2>1. \A x \in 0 .. 2 : AtMost(x + 1, 2) \in 0 .. 2
        BY DEF AtMost
    <2>2. QED
        BY <1>1, <1>2, <1>6, <2>1 DEF Counted
<1>8. \A o \in {maker, taker} : /\ fills[<<o.trader, o.nonce>>] = 0
                                /\ fills'[<<o.trader, o.nonce>>] = 1
    <2>1. AtMost(0 + 1, 2) = 1
        BY DEF AtMost
    <2>2. QED
        BY <1>1, <1>2, <1>3, <1>6, <2>1
<1>9. NoncesExact'
    <2> SUFFICES ASSUME NEW o \in SignedOrders
                 PROVE  fills'[<<o.trader, o.nonce>>] = IF IsSet(o)' THEN 1 ELSE 0
        BY DEF NoncesExact
    <2>1. <<o.trader, o.nonce>> \in TraderNonces
        BY OrderFacts
    <2>2. CASE <<o.trader, o.nonce>> \in {<<maker.trader, maker.nonce>>, <<taker.trader, taker.nonce>>}
        BY <1>5, <1>8, <2>2
    <2>3. CASE <<o.trader, o.nonce>> \notin {<<maker.trader, maker.nonce>>, <<taker.trader, taker.nonce>>}
        BY <1>2, <1>5, <1>6, <2>1, <2>3
    <2>4. QED
        BY <2>2, <2>3
<1>10. QED
    BY <1>4, <1>7, <1>8, <1>9

LEMMA InitSInv == IInv /\ SettlementInit => SInv
<1> SUFFICES ASSUME IInv, SettlementInit PROVE SInv
    OBVIOUS
<1>1. PICK key \in Relayers, recipient \in FeeRecipients :
          config = [owner |-> key, pending_owner |-> NoKey, fee_recipient |-> recipient,
                    paused |-> FALSE,
                    maker_fee_bps |-> DefaultFees[1], taker_fee_bps |-> DefaultFees[2],
                    min_settlement_delay |-> DefaultDelays[1],
                    max_settlement_delay |-> DefaultDelays[2],
                    dynamic_spread_enabled |-> TRUE, tiers |-> DefaultTiers]
    BY DEF SettlementInit
<1>2. /\ recipient \in Accounts
      /\ DefaultFees[1] \in 0 .. MAX_FEE_BPS /\ DefaultFees[2] \in 0 .. MAX_FEE_BPS
      /\ DefaultDelays[1] \in 0 .. MAX_DELAY_SECS /\ DefaultDelays[2] \in 0 .. MAX_DELAY_SECS
      /\ DefaultDelays[1] <= DefaultDelays[2]
      /\ DefaultTiers \in TierChoices
    BY SettlementAssumption
<1>3. config \in ConfigRecord /\ config.min_settlement_delay <= config.max_settlement_delay
    BY <1>1, <1>2 DEF ConfigRecord
<1>4. /\ now \in Now /\ now = 1 /\ changes \in 0 .. MaxChanges
      /\ venue_authorized \in BOOLEAN /\ relayers \subseteq Relayers
    BY VenueAssumption DEF SettlementInit, Now
<1>5. /\ snapshot = [o \in SignedOrders |-> NoSnapshot]
      /\ \A o \in SignedOrders : snapshot[o].commit_time \in 0 .. now
    BY <1>4 DEF SettlementInit, NoSnapshot
<1>6. /\ nonce_page = [t \in Traders |-> [p \in Pages |-> {}]]
      /\ fills = [tn \in TraderNonces |-> 0]
    BY DEF SettlementInit
<1>7. NoncesExact
    BY <1>6, OrderFacts DEF NoncesExact, IsSet
<1>8. SettlementTypeOK
    <2>1. /\ nonce_page \in [Traders -> [Pages -> SUBSET (0 .. PageBits - 1)]]
          /\ fills \in [TraderNonces -> 0 .. 2]
        BY <1>6
    <2>2. QED
        BY <1>3, <1>4, <1>5, <2>1 DEF SettlementTypeOK, ConfigRecord, IInv
<1>9. QED
    BY <1>5, <1>7, <1>8 DEF SInv

\* The parts of the invariant in the words of the lemmas.
LEMMA Parts ==
    ASSUME SInv
    PROVE  /\ ConfigSound(config)
           /\ config.owner \in Keys \cup Relayers
           /\ config.pending_owner \in Keys \cup Relayers \cup {NoKey}
           /\ relayers \subseteq Relayers /\ venue_authorized \in BOOLEAN
           /\ now \in Now /\ now \in Nat \ {0} /\ changes \in 0 .. MaxChanges
           /\ MaxChanges \in Nat /\ LastTime \in Nat
           /\ snapshot \in [SignedOrders -> SnapshotRecord \cup {NoSnapshot}]
           /\ \A o \in SignedOrders : snapshot[o].commit_time \in 0 .. now
BY SettlementAssumption, VenueAssumption DEF SInv, SettlementTypeOK, ConfigSound, ConfigRecord, Now

\* A step that leaves the nonces alone.
LEMMA NoncesAlone ==
    ASSUME SInv, IInv', UNCHANGED <<nonce_page, fills>>,
           ConfigSound(config'), relayers' \subseteq Relayers, venue_authorized' \in BOOLEAN,
           changes' \in 0 .. MaxChanges, now' \in Now,
           snapshot' \in [SignedOrders -> SnapshotRecord \cup {NoSnapshot}],
           \A o \in SignedOrders : snapshot'[o].commit_time \in 0 .. now'
    PROVE  SInv'
<1>1. NoncesExact'
    BY DEF SInv, NoncesExact, IsSet
<1>2. TypeOK'
    BY DEF IInv
<1>3. SettlementTypeOK'
    BY <1>2 DEF SInv, SettlementTypeOK, ConfigSound, ConfigRecord
<1>4. QED
    BY <1>1, <1>3 DEF SInv

LEMMA CommitStep ==
    ASSUME SInv, NEW op, NEW o \in SignedOrders, CommitOrder(op, o), UNCHANGED changes
    PROVE  /\ SInv'
           /\ UNCHANGED <<vars, fills>>
           /\ \A s \in SignedOrders : Committed(s) => snapshot'[s] = snapshot[s]
<1>1. /\ ~ Committed(o)
      /\ snapshot' = [snapshot EXCEPT ![o] = Terms(config, now)]
      /\ UNCHANGED <<vars, venue_authorized, config, relayers, nonce_page, now, fills>>
    BY DEF CommitOrder
<1>2. /\ ConfigSound(config) /\ now \in Now /\ now \in Nat \ {0}
      /\ relayers \subseteq Relayers /\ venue_authorized \in BOOLEAN
      /\ changes \in 0 .. MaxChanges
      /\ snapshot \in [SignedOrders -> SnapshotRecord \cup {NoSnapshot}]
      /\ \A s \in SignedOrders : snapshot[s].commit_time \in 0 .. now
    BY Parts
<1>3. Terms(config, now) \in SnapshotRecord /\ Terms(config, now).commit_time = now
    BY <1>2 DEF Terms, SnapshotRecord, ConfigSound, ConfigRecord
<1>4. /\ snapshot' \in [SignedOrders -> SnapshotRecord \cup {NoSnapshot}]
      /\ \A s \in SignedOrders : snapshot'[s].commit_time \in 0 .. now'
      /\ \A s \in SignedOrders : Committed(s) => snapshot'[s] = snapshot[s]
    BY <1>1, <1>2, <1>3
<1>5. IInv'
    BY <1>1, NextIInv DEF SInv
<1>6. QED
    BY <1>1, <1>2, <1>4, <1>5, NoncesAlone

LEMMA SettleStep ==
    ASSUME SInv, UNCHANGED changes, NEW op, NEW maker \in SignedOrders, NEW taker \in SignedOrders,
           NEW price \in Prices, NEW size \in Nat, NEW with_maker, NEW with_taker,
           NEW m \in Markets,
           SettleOne(op, maker, taker, price, size, with_maker, with_taker, m)
    PROVE  SInv' /\ UNCHANGED snapshot
<1>1. IInv'
    BY ExchangeStep DEF Exchanged
<1>2. /\ nonce_page' \in [Traders -> [Pages -> SUBSET (0 .. PageBits - 1)]]
      /\ fills' \in [TraderNonces -> 0 .. 2]
      /\ NoncesExact'
    BY NonceStep
<1>3. UNCHANGED <<admin, engine_pool, vault_gate, venue_authorized, config, relayers, snapshot, now>>
    BY DEF SettleOne
<1>4. TypeOK'
    BY <1>1 DEF IInv
<1>5. SettlementTypeOK'
    BY <1>2, <1>3, <1>4 DEF SInv, SettlementTypeOK
<1>6. QED
    BY <1>1, <1>2, <1>3, <1>5 DEF SInv

LEMMA RelayerStepKeeps ==
    ASSUME SInv, RelayerStep, UNCHANGED changes
    PROVE  SInv'
<1>1. PICK op \in Relayers :
        \/ \E o \in SignedOrders : CommitOrder(op, o)
        \/ \E pair \in Pairs, price \in Prices, m \in Markets, with_maker, with_taker \in BOOLEAN :
              \E size \in 1 .. pair[1].size :
                  SettleOne(op, pair[1], pair[2], price, size, with_maker, with_taker, m)
    BY DEF RelayerStep
<1>2. CASE \E o \in SignedOrders : CommitOrder(op, o)
    BY <1>2, CommitStep
<1>3. CASE \E pair \in Pairs, price \in Prices, m \in Markets, with_maker, with_taker \in BOOLEAN :
              \E size \in 1 .. pair[1].size :
                  SettleOne(op, pair[1], pair[2], price, size, with_maker, with_taker, m)
    <2>1. PICK pair \in Pairs, price \in Prices, m \in Markets,
               with_maker \in BOOLEAN, with_taker \in BOOLEAN :
              \E size \in 1 .. pair[1].size :
                  SettleOne(op, pair[1], pair[2], price, size, with_maker, with_taker, m)
        BY <1>3
    <2>2. pair[1] \in SignedOrders /\ pair[2] \in SignedOrders
        BY DEF Pairs
    <2>3. PICK size \in 1 .. pair[1].size :
              SettleOne(op, pair[1], pair[2], price, size, with_maker, with_taker, m)
        BY <2>1
    <2>4. size \in Nat
        BY <2>2, OrderFacts
    <2>5. QED
        BY <2>2, <2>3, <2>4, SettleStep
<1>4. QED
    BY <1>1, <1>2, <1>3

\* What the owner may set leaves the configuration sound.
LEMMA OwnerSteps ==
    ASSUME SInv, SettlementOwnerStep
    PROVE  /\ ConfigSound(config') /\ relayers' \subseteq Relayers
           /\ UNCHANGED <<vars, venue_authorized, nonce_page, snapshot, now, fills>>
<1>1. /\ ConfigSound(config) /\ relayers \subseteq Relayers
    BY Parts
<1>2. PICK key \in Relayers :
        \/ \E fees \in FeeChoices : SetFees(key, fees)
        \/ \E delays \in DelayChoices : SetSettlementDelay(key, delays)
        \/ \E tiers \in TierChoices : SetDynamicSpreadTiers(key, tiers)
        \/ \E recipient \in FeeRecipients : SetFeeRecipient(key, recipient)
        \/ \E flag \in BOOLEAN :
              \/ SetSettlementPaused(key, flag)
              \/ SetDynamicSpreadEnabled(key, flag)
              \/ \E op \in Relayers : SetRelayer(key, op, flag)
        \/ \E new_owner \in Relayers : TransferSettlement(key, new_owner)
        \/ AcceptSettlement(key)
    BY DEF SettlementOwnerStep
<1>3. ASSUME NEW new_config, ConfigSound(new_config), Configured(key, new_config)
      PROVE  /\ ConfigSound(config') /\ relayers' \subseteq Relayers
             /\ UNCHANGED <<vars, venue_authorized, nonce_page, snapshot, now, fills>>
    BY <1>1, <1>3 DEF Configured
<1>4. ASSUME NEW fees \in FeeChoices, SetFees(key, fees)
      PROVE  /\ ConfigSound(config') /\ relayers' \subseteq Relayers
             /\ UNCHANGED <<vars, venue_authorized, nonce_page, snapshot, now, fills>>
    <2>1. fees[1] \in 0 .. MAX_FEE_BPS /\ fees[2] \in 0 .. MAX_FEE_BPS
        BY SettlementAssumption
    <2>2. ConfigSound([config EXCEPT !.maker_fee_bps = fees[1], !.taker_fee_bps = fees[2]])
        BY <1>1, <2>1 DEF ConfigSound, ConfigRecord
    <2>3. QED
        BY <1>3, <1>4, <2>2 DEF SetFees
<1>5. ASSUME NEW delays \in DelayChoices, SetSettlementDelay(key, delays)
      PROVE  /\ ConfigSound(config') /\ relayers' \subseteq Relayers
             /\ UNCHANGED <<vars, venue_authorized, nonce_page, snapshot, now, fills>>
    <2>1. /\ delays[1] \in 0 .. MAX_DELAY_SECS /\ delays[2] \in 0 .. MAX_DELAY_SECS
          /\ delays[1] <= delays[2]
        BY SettlementAssumption
    <2>2. ConfigSound([config EXCEPT !.min_settlement_delay = delays[1],
                                     !.max_settlement_delay = delays[2]])
        BY <1>1, <2>1 DEF ConfigSound, ConfigRecord
    <2>3. QED
        BY <1>3, <1>5, <2>2 DEF SetSettlementDelay
<1>6. ASSUME NEW tiers \in TierChoices, SetDynamicSpreadTiers(key, tiers)
      PROVE  /\ ConfigSound(config') /\ relayers' \subseteq Relayers
             /\ UNCHANGED <<vars, venue_authorized, nonce_page, snapshot, now, fills>>
    <2>1. ConfigSound([config EXCEPT !.tiers = tiers])
        BY <1>1 DEF ConfigSound, ConfigRecord
    <2>2. QED
        BY <1>3, <1>6, <2>1 DEF SetDynamicSpreadTiers
<1>7. ASSUME NEW recipient \in FeeRecipients, SetFeeRecipient(key, recipient)
      PROVE  /\ ConfigSound(config') /\ relayers' \subseteq Relayers
             /\ UNCHANGED <<vars, venue_authorized, nonce_page, snapshot, now, fills>>
    <2>1. recipient \in Accounts
        BY SettlementAssumption
    <2>2. ConfigSound([config EXCEPT !.fee_recipient = recipient])
        BY <1>1, <2>1 DEF ConfigSound, ConfigRecord
    <2>3. QED
        BY <1>3, <1>7, <2>2 DEF SetFeeRecipient
<1>8. ASSUME NEW flag \in BOOLEAN, SetSettlementPaused(key, flag) \/ SetDynamicSpreadEnabled(key, flag)
      PROVE  /\ ConfigSound(config') /\ relayers' \subseteq Relayers
             /\ UNCHANGED <<vars, venue_authorized, nonce_page, snapshot, now, fills>>
    <2>1. /\ ConfigSound([config EXCEPT !.paused = flag])
          /\ ConfigSound([config EXCEPT !.dynamic_spread_enabled = flag])
        BY <1>1 DEF ConfigSound, ConfigRecord
    <2>2. QED
        BY <1>3, <1>8, <2>1 DEF SetSettlementPaused, SetDynamicSpreadEnabled
<1>9. ASSUME NEW flag \in BOOLEAN, NEW op \in Relayers, SetRelayer(key, op, flag)
      PROVE  /\ ConfigSound(config') /\ relayers' \subseteq Relayers
             /\ UNCHANGED <<vars, venue_authorized, nonce_page, snapshot, now, fills>>
    BY <1>1, <1>9 DEF SetRelayer
<1>10. ASSUME NEW new_owner \in Relayers, TransferSettlement(key, new_owner)
       PROVE  /\ ConfigSound(config') /\ relayers' \subseteq Relayers
              /\ UNCHANGED <<vars, venue_authorized, nonce_page, snapshot, now, fills>>
    <2>1. ConfigSound([config EXCEPT !.pending_owner = new_owner])
        BY <1>1 DEF ConfigSound, ConfigRecord
    <2>2. QED
        BY <1>3, <1>10, <2>1 DEF TransferSettlement
<1>11. ASSUME AcceptSettlement(key)
       PROVE  /\ ConfigSound(config') /\ relayers' \subseteq Relayers
              /\ UNCHANGED <<vars, venue_authorized, nonce_page, snapshot, now, fills>>
    <2>1. ConfigSound([config EXCEPT !.owner = key, !.pending_owner = NoKey])
        BY <1>1 DEF ConfigSound, ConfigRecord
    <2>2. QED
        BY <1>1, <1>11, <2>1 DEF AcceptSettlement
<1>12. QED
    BY <1>2, <1>4, <1>5, <1>6, <1>7, <1>8, <1>9, <1>10, <1>11

LEMMA OwnersStepKeeps ==
    ASSUME SInv, OwnersStep
    PROVE  SInv' /\ UNCHANGED <<vars, nonce_page, snapshot, now, fills>>
<1>1. changes' \in 0 .. MaxChanges
    <2>1. changes \in 0 .. MaxChanges /\ MaxChanges \in Nat
        BY Parts
    <2>2. changes < MaxChanges /\ changes' \in {changes, changes + 1}
        BY DEF OwnersStep
    <2>3. QED
        BY <2>1, <2>2
<1>2. /\ ConfigSound(config') /\ relayers' \subseteq Relayers /\ venue_authorized' \in BOOLEAN
      /\ UNCHANGED <<vars, nonce_page, snapshot, now, fills>>
    <2>1. CASE SettlementOwnerStep
        BY <2>1, OwnerSteps, Parts
    <2>2. CASE \E status \in BOOLEAN : SetVenueAuthorized(status)
        BY <2>2, Parts DEF SetVenueAuthorized, settlement
    <2>3. QED
        BY <2>1, <2>2 DEF OwnersStep
<1>3. IInv'
    BY <1>2, NextIInv DEF SInv
<1>4. /\ now \in Now
      /\ snapshot \in [SignedOrders -> SnapshotRecord \cup {NoSnapshot}]
      /\ \A o \in SignedOrders : snapshot[o].commit_time \in 0 .. now
    BY Parts
<1>5. SInv'
    BY <1>1, <1>2, <1>3, <1>4, NoncesAlone
<1>6. QED
    BY <1>2, <1>5

LEMMA EngineStepKeeps ==
    ASSUME SInv, EngineStep, UNCHANGED changes
    PROVE  SInv' /\ UNCHANGED <<fills, snapshot>>
<1>1. UNCHANGED <<venue_authorized, config, relayers, nonce_page, snapshot, now, fills>>
    BY DEF EngineStep, settlement
<1>2. IInv /\ Prices \subseteq U64 /\ FeeRecipients \subseteq Accounts /\ Insurance \in Accounts
    BY EngineAssumption, SettlementAssumption DEF SInv
<1>3. IInv'
    <2>1. CASE \E m \in Markets, price \in Prices : UpdateMarkPrice(os, m, price)
        BY <1>2, <2>1, UpdateMarkPriceStep
    <2>2. CASE \E m \in Markets, t \in Traders, keeper \in FeeRecipients :
                  LiquidatePosition(os, m, t, keeper, Insurance)
        BY <1>2, <2>2, LiquidatePositionStep
    <2>3. QED
        BY <2>1, <2>2 DEF EngineStep
<1>4. QED
    BY <1>1, <1>3, Parts, NoncesAlone

LEMMA TickKeeps ==
    ASSUME SInv, Tick, UNCHANGED changes
    PROVE  SInv' /\ UNCHANGED <<vars, fills, snapshot>>
<1>1. /\ now < LastTime /\ now' = now + 1
      /\ UNCHANGED <<vars, venue_authorized, config, relayers, nonce_page, snapshot, fills>>
    BY DEF Tick
<1>2. now \in Nat \ {0} /\ LastTime \in Nat
    BY Parts
<1>3. now' \in Now /\ 0 .. now \subseteq 0 .. now'
    BY <1>1, <1>2 DEF Now
<1>4. IInv'
    BY <1>1, NextIInv DEF SInv
<1>5. \A o \in SignedOrders : snapshot'[o].commit_time \in 0 .. now'
    BY <1>1, <1>3, Parts
<1>6. QED
    BY <1>1, <1>3, <1>4, <1>5, Parts, NoncesAlone

LEMMA NextSInv == SInv /\ [SettlementNext]_svars => SInv'
<1> SUFFICES ASSUME SInv, [SettlementNext]_svars PROVE SInv'
    OBVIOUS
<1>1. CASE UNCHANGED svars
    <2>1. UNCHANGED <<vars, venue_authorized, config, relayers, nonce_page, snapshot, now, fills, changes>>
        BY <1>1 DEF svars, settlement
    <2>2. IInv'
        BY <2>1, NextIInv DEF SInv
    <2>3. QED
        BY <2>1, <2>2, Parts, NoncesAlone
<1>2. CASE RelayerStep /\ UNCHANGED changes
    BY <1>2, RelayerStepKeeps
<1>3. CASE EngineStep /\ UNCHANGED changes
    BY <1>3, EngineStepKeeps
<1>4. CASE Tick /\ UNCHANGED changes
    BY <1>4, TickKeeps
<1>5. CASE OwnersStep
    BY <1>5, OwnersStepKeeps
<1>6. QED
    BY <1>1, <1>2, <1>3, <1>4, <1>5 DEF SettlementNext

LEMMA SettlementInvariance == SettlementOnAnyEngine => []SInv
BY InitSInv, NextSInv, PTL DEF SettlementOnAnyEngine

--------------------------------------------------------------------------------
(* The theorems *)

\* The engine a deployment leaves is one whose books are sound: what holds on
\* any such engine holds of SettlementSpec.
LEMMA DeploymentIsAnEngine == SettlementSpec => SettlementOnAnyEngine
BY DeployedIInv DEF SettlementSpec, SettlementStart, SettlementOnAnyEngine

\* Nonces settle once and are spent exactly when they have, and the engine's
\* books stay exact under the two routed fills of every settlement.
THEOREM SettlementBooks == SettlementOnAnyEngine => []SettlementInv
<1>1. SInv => SettlementInv
    BY DEF SInv, SettlementInv, IInv
<1>2. QED
    BY <1>1, SettlementInvariance, PTL

\* The only step that settles is a settlement.
LEMMA OnlySettlementsSettle ==
    ASSUME SInv, [SettlementNext]_svars, fills' # fills
    PROVE  \E op, with_maker, with_taker :
             \E maker, taker \in SignedOrders, price \in Prices, m \in Markets, size \in Nat :
                SettleOne(op, maker, taker, price, size, with_maker, with_taker, m)
<1>1. RelayerStep /\ UNCHANGED changes
    BY EngineStepKeeps, TickKeeps, OwnersStepKeeps DEF SettlementNext, svars, settlement
<1>2. PICK op \in Relayers :
        \/ \E o \in SignedOrders : CommitOrder(op, o)
        \/ \E pair \in Pairs, price \in Prices, m \in Markets, with_maker, with_taker \in BOOLEAN :
              \E size \in 1 .. pair[1].size :
                  SettleOne(op, pair[1], pair[2], price, size, with_maker, with_taker, m)
    BY <1>1 DEF RelayerStep
<1>3. PICK pair \in Pairs, price \in Prices, m \in Markets,
           with_maker \in BOOLEAN, with_taker \in BOOLEAN :
              \E size \in 1 .. pair[1].size :
                  SettleOne(op, pair[1], pair[2], price, size, with_maker, with_taker, m)
    BY <1>2 DEF CommitOrder
<1>4. pair[1] \in SignedOrders /\ pair[2] \in SignedOrders
    BY DEF Pairs
<1>5. PICK size \in 1 .. pair[1].size :
          SettleOne(op, pair[1], pair[2], price, size, with_maker, with_taker, m)
    BY <1>3
<1>6. size \in Nat
    BY <1>4, OrderFacts
<1>7. QED
    BY <1>4, <1>5, <1>6

\* The two sides of a settlement.
LEMMA Sides ==
    ASSUME SInv, NEW op, NEW maker \in SignedOrders, NEW taker \in SignedOrders,
           NEW price \in Prices, NEW size \in Nat, NEW with_maker, NEW with_taker, NEW m \in Markets,
           SettleOne(op, maker, taker, price, size, with_maker, with_taker, m)
    PROVE  /\ maker.trader \in Traders /\ taker.trader \in Traders
           /\ maker.trader # taker.trader
           /\ maker.is_long \in BOOLEAN /\ taker.is_long \in BOOLEAN
           /\ maker.is_long # taker.is_long
           /\ maker.price \in Nat /\ taker.price \in Nat /\ price \in Nat
           /\ size > 0 /\ size <= maker.size /\ size <= taker.size
           /\ WithinPrices(maker, taker, price)
           /\ now <= maker.expiry /\ now <= taker.expiry
           /\ position \in PositionTables
           /\ Delta(maker, size) \in Int /\ Delta(taker, size) \in Int
           /\ Delta(maker, size) + Delta(taker, size) = 0
           /\ position[m][maker.trader].size \in Int /\ position[m][taker.trader].size \in Int
           /\ position[m][maker.trader] \in PositionRecord
           /\ position[m][taker.trader] \in PositionRecord
<1>1. /\ maker.trader \in Traders /\ taker.trader \in Traders
      /\ maker.is_long \in BOOLEAN /\ taker.is_long \in BOOLEAN
      /\ maker.price \in Nat /\ taker.price \in Nat
    BY OrderFacts
<1>2. /\ maker.trader # taker.trader /\ maker.is_long # taker.is_long
      /\ size > 0 /\ size <= maker.size /\ size <= taker.size
      /\ WithinPrices(maker, taker, price)
    BY DEF SettleOne, Matches, Opposite
<1>3. now <= maker.expiry /\ now <= taker.expiry
    BY DEF SettleOne, InTime
<1>4. price \in Nat
    BY EngineAssumption, LedgerAssumption DEF U64
<1>5. position \in PositionTables
    BY DEF SInv, IInv, TypeOK, PositionTables, PositionRecord
<1>6. \A t \in Traders : position[m][t] \in PositionRecord /\ position[m][t].size \in Int
    BY <1>5, LedgerAssumption DEF PositionTables, PositionRecord, I64, MaxI64
<1>7. /\ Delta(maker, size) \in Int /\ Delta(taker, size) \in Int
      /\ Delta(maker, size) + Delta(taker, size) = 0
    BY <1>1, <1>2 DEF Delta
<1>8. QED
    BY <1>1, <1>2, <1>3, <1>4, <1>5, <1>6, <1>7

\* What becomes of the positions of the two sides: no other position changes.
PositionsTraded(maker, taker, m, price, size) ==
    /\ position' \in PositionTables
    /\ \A n \in Markets, v \in Traders :
          n # m \/ v \notin {maker.trader, taker.trader} => position'[n][v] = position[n][v]
    /\ \A o \in {maker, taker} :
          LET old == position[m][o.trader]
              new == position'[m][o.trader]
          IN  /\ old \in PositionRecord /\ new \in PositionRecord
              /\ new.size = old.size + Delta(o, size)
              /\ old.size = 0 => new.entry_price = price
    /\ \A n \in Markets : NetSize(position', n) = NetSize(position, n)
    /\ config.fee_recipient # Pool =>
          PoolSurplus(ledger', position') - PoolSurplus(ledger, position)
             <= LeftBehind(position[m][maker.trader], position'[m][maker.trader], price)
                + LeftBehind(position[m][taker.trader], position'[m][taker.trader], price)

LEMMA Traded ==
    ASSUME SInv, NEW op, NEW maker \in SignedOrders, NEW taker \in SignedOrders,
           NEW price \in Prices, NEW size \in Nat, NEW with_maker, NEW with_taker, NEW m \in Markets,
           SettleOne(op, maker, taker, price, size, with_maker, with_taker, m)
    PROVE  PositionsTraded(maker, taker, m, price, size)
<1>1. PICK p \in PositionRecord, q \in PositionRecord :
        /\ position' = Replace(Replace(position, m, maker.trader, p), m, taker.trader, q)
        /\ p.size = position[m][maker.trader].size + Delta(maker, size)
        /\ q.size = position[m][taker.trader].size + Delta(taker, size)
        /\ position[m][maker.trader].size = 0 => p.entry_price = price
        /\ position[m][taker.trader].size = 0 => q.entry_price = price
        /\ config.fee_recipient # Pool =>
              PoolSurplus(ledger', position') - PoolSurplus(ledger, position)
                 <= LeftBehind(position[m][maker.trader], p, price)
                    + LeftBehind(position[m][taker.trader], q, price)
    BY ExchangeStep DEF Exchanged
<1> DEFINE t == maker.trader
           u == taker.trader
           d1 == Delta(maker, size)
           d2 == Delta(taker, size)
           x == position[m][t].size
           y == position[m][u].size
<1>2. /\ t \in Traders /\ u \in Traders /\ t # u /\ position \in PositionTables
      /\ d1 \in Int /\ d2 \in Int /\ d1 + d2 = 0
      /\ x \in Int /\ y \in Int
      /\ position[m][t] \in PositionRecord /\ position[m][u] \in PositionRecord
    BY Sides
<1>3. p.size = x + d1 /\ q.size = y + d2
    BY <1>1
<1>4. p.size + q.size = x + y
    <2> HIDE DEF x, y, d1, d2
    <2>1. QED
        BY <1>2, <1>3
<1>5. position' = Replace(Replace(position, m, t, p), m, u, q)
    BY <1>1
<1> HIDE DEF t, u, d1, d2, x, y
<1>6. p.size + q.size = position[m][t].size + position[m][u].size
    BY <1>4 DEF x, y
<1> DEFINE after == Replace(Replace(position, m, t, p), m, u, q)
<1>7. /\ after \in PositionTables
      /\ after[m][t] = p /\ after[m][u] = q
      /\ \A n \in Markets, v \in Traders :
            n # m \/ v \notin {t, u} => after[n][v] = position[n][v]
      /\ \A n \in Markets : NetSize(after, n) = NetSize(position, n)
    <2>1. /\ after \in PositionTables
          /\ after[m][t] = p /\ after[m][u] = q
          /\ \A n \in Markets, v \in Traders :
                n # m \/ v \notin {t, u} => after[n][v] = position[n][v]
          /\ p.size + q.size = position[m][t].size + position[m][u].size =>
                \A n \in Markets : NetSize(after, n) = NetSize(position, n)
        BY <1>2, TwoPositions
    <2> HIDE DEF after
    <2>2. QED
        BY <1>6, <2>1
<1>8. position' = after
    BY <1>5
<1> HIDE DEF after
<1>9. /\ position' \in PositionTables
      /\ position'[m][t] = p /\ position'[m][u] = q
      /\ \A n \in Markets, v \in Traders :
            n # m \/ v \notin {t, u} => position'[n][v] = position[n][v]
      /\ \A n \in Markets : NetSize(position', n) = NetSize(position, n)
    BY <1>7, <1>8
<1>10. QED
    BY <1>1, <1>2, <1>9 DEF PositionsTraded, t, u

\* Both sides of a trade balance and no value is created, for every market,
\* every pair of orders and every mixture of openings, reductions, flips and
\* closes they become.
THEOREM TradesAlwaysMatch == SettlementOnAnyEngine => TradesMatch
<1> DEFINE Matched ==
        fills' # fills =>
            /\ \A m \in Markets : NetSize(position', m) = NetSize(position, m)
            /\ TotalBalance(ledger') = TotalBalance(ledger)
            /\ TotalCollateral(ledger') = TotalCollateral(ledger)
<1>1. ASSUME SInv, [SettlementNext]_svars
      PROVE  Matched
    <2> SUFFICES ASSUME fills' # fills
                 PROVE  /\ \A m \in Markets : NetSize(position', m) = NetSize(position, m)
                        /\ TotalBalance(ledger') = TotalBalance(ledger)
                        /\ TotalCollateral(ledger') = TotalCollateral(ledger)
        OBVIOUS
    <2>1. PICK op, with_maker, with_taker :
             \E maker, taker \in SignedOrders, price \in Prices, m \in Markets, size \in Nat :
                SettleOne(op, maker, taker, price, size, with_maker, with_taker, m)
        BY <1>1, OnlySettlementsSettle
    <2>2. PICK maker \in SignedOrders, taker \in SignedOrders, price \in Prices,
               m \in Markets, size \in Nat :
                SettleOne(op, maker, taker, price, size, with_maker, with_taker, m)
        BY <2>1
    <2>3. /\ TotalBalance(ledger') = TotalBalance(ledger)
          /\ TotalCollateral(ledger') = TotalCollateral(ledger)
        BY <1>1, <2>2, ExchangeStep DEF Exchanged
    <2>4. \A n \in Markets : NetSize(position', n) = NetSize(position, n)
        BY <1>1, <2>2, Traded DEF PositionsTraded
    <2>5. QED
        BY <2>3, <2>4
<1> HIDE DEF Matched
<1>2. SettlementOnAnyEngine => [][Matched]_svars
    BY <1>1, SettlementInvariance, PTL DEF SettlementOnAnyEngine
<1>3. QED
    BY <1>2 DEF TradesMatch, Matched

\* A settlement changes positions only as the orders of their traders say.
LEMMA SettlementKeepsTerms ==
    ASSUME SInv, NEW op, NEW maker \in SignedOrders, NEW taker \in SignedOrders,
           NEW price \in Prices, NEW size \in Nat, NEW with_maker, NEW with_taker, NEW m \in Markets,
           SettleOne(op, maker, taker, price, size, with_maker, with_taker, m),
           NEW n \in Markets, NEW v \in Traders, position'[n][v] # position[n][v]
    PROVE  LET old == position[n][v]
               new == position'[n][v]
               delta == new.size - old.size
           IN  \E o \in SignedOrders :
                    /\ o.trader = v
                    /\ fills[<<v, o.nonce>>] = 0 /\ fills'[<<v, o.nonce>>] = 1
                    /\ now <= o.expiry
                    /\ Abs(delta) <= o.size
                    /\ delta > 0 <=> o.is_long
                    /\ old.size = 0 =>
                          IF o.is_long THEN new.entry_price <= o.price
                                       ELSE new.entry_price >= o.price
<1> DEFINE old == position[n][v]
           new == position'[n][v]
<1> DEFINE traded == PositionsTraded(maker, taker, m, price, size)
<1>0. traded
    BY Traded
<1>1. n = m /\ v \in {maker.trader, taker.trader}
    BY <1>0 DEF PositionsTraded
<1>2. PICK o \in {maker, taker} : o.trader = v
    BY <1>1
<1>3. /\ old \in PositionRecord
      /\ new.size = old.size + Delta(o, size)
      /\ old.size = 0 => new.entry_price = price
    BY <1>0, <1>1, <1>2 DEF PositionsTraded
<1>4. old.size \in Int
    BY <1>3, LedgerAssumption DEF PositionRecord, I64, MaxI64
<1>5. /\ o \in SignedOrders
      /\ o.is_long \in BOOLEAN /\ size > 0 /\ size <= o.size /\ o.size \in Nat
      /\ now <= o.expiry
      /\ IF o.is_long THEN price <= o.price ELSE price >= o.price
    <2>1. /\ maker.is_long \in BOOLEAN /\ taker.is_long \in BOOLEAN
          /\ maker.is_long # taker.is_long
          /\ maker.price \in Nat /\ taker.price \in Nat /\ price \in Nat
          /\ WithinPrices(maker, taker, price)
        BY Sides
    <2>2. IF o.is_long THEN price <= o.price ELSE price >= o.price
        BY <2>1 DEF WithinPrices
    <2>3. QED
        BY <2>2, Sides, OrderFacts
<1>6. fills[<<v, o.nonce>>] = 0 /\ fills'[<<v, o.nonce>>] = 1
    BY <1>2, NonceStep
<1> DEFINE delta == new.size - old.size
<1>7. delta = Delta(o, size)
    <2>1. Delta(o, size) \in Int
        BY <1>5 DEF Delta
    <2> HIDE DEF new, old
    <2>2. QED
        BY <1>3, <1>4, <2>1
<1>8. Abs(delta) <= o.size /\ (delta > 0 <=> o.is_long)
    <2> HIDE DEF delta
    <2>1. QED
        BY <1>5, <1>7 DEF Delta, Abs
<1> HIDE DEF old, new
<1>9. QED
    BY <1>2, <1>3, <1>5, <1>6, <1>8 DEF old, new

\* Signed terms are kept: size, side, expiry and limit price of every order,
\* and its nonce used once, whatever position the trader had.
THEOREM SignedTermsAlwaysKept == SettlementOnAnyEngine => SignedTermsKept
<1> DEFINE Kept ==
        \A m \in Markets, t \in Traders :
            LET old == position[m][t]
                new == position'[m][t]
                delta == new.size - old.size
            IN  (fills' # fills /\ new # old) =>
                    \E o \in SignedOrders :
                        /\ o.trader = t
                        /\ fills[<<t, o.nonce>>] = 0 /\ fills'[<<t, o.nonce>>] = 1
                        /\ now <= o.expiry
                        /\ Abs(delta) <= o.size
                        /\ delta > 0 <=> o.is_long
                        /\ old.size = 0 =>
                              IF o.is_long THEN new.entry_price <= o.price
                                           ELSE new.entry_price >= o.price
<1>1. ASSUME SInv, [SettlementNext]_svars
      PROVE  Kept
    <2>1. CASE fills' = fills
        BY <2>1
    <2>2. CASE fills' # fills
        BY <1>1, <2>2, OnlySettlementsSettle, SettlementKeepsTerms
    <2>3. QED
        BY <2>1, <2>2
<1> HIDE DEF Kept
<1>2. SettlementOnAnyEngine => [][Kept]_svars
    BY <1>1, SettlementInvariance, PTL DEF SettlementOnAnyEngine
<1>3. QED
    BY <1>2 DEF SignedTermsKept, Kept

--------------------------------------------------------------------------------
(* No margin is stranded *)

\* What every traded position may leave behind, for one settlement.
LEMMA SettlementStrandsNothing ==
    ASSUME SInv, NEW op, NEW maker \in SignedOrders, NEW taker \in SignedOrders,
           NEW price \in Prices, NEW size \in Nat, NEW with_maker, NEW with_taker, NEW m \in Markets,
           SettleOne(op, maker, taker, price, size, with_maker, with_taker, m),
           config.fee_recipient # Pool
    PROVE  PoolSurplus(ledger', position') - PoolSurplus(ledger, position)
              <= SumTo([t \in Traders |-> SumTo([n \in Markets |->
                    LeftBehind(position[n][t], position'[n][t], price)],
                                                NumMarkets)], NumTraders)
<1> DEFINE t == maker.trader
           u == taker.trader
           amount == [v \in Traders |-> [n \in Markets |->
                         LeftBehind(position[n][v], position'[n][v], price)]]
           left == SumTo([v \in Traders |-> SumTo([n \in Markets |-> amount[v][n]], NumMarkets)],
                         NumTraders)
           gain == PoolSurplus(ledger', position') - PoolSurplus(ledger, position)
<1>1. /\ t \in Traders /\ u \in Traders /\ t # u /\ price \in Nat
      /\ position \in PositionTables
    BY Sides
<1>2. PositionsTraded(maker, taker, m, price, size)
    BY Traded
<1>3. /\ position' \in PositionTables
      /\ gain <= LeftBehind(position[m][t], position'[m][t], price)
                   + LeftBehind(position[m][u], position'[m][u], price)
    BY <1>2 DEF PositionsTraded
<1> HIDE DEF t, u
<1>4. \A v \in Traders, n \in Markets :
          /\ position[n][v] \in PositionRecord /\ position'[n][v] \in PositionRecord
          /\ LeftBehind(position[n][v], position'[n][v], price) \in Nat
          /\ amount[v][n] = LeftBehind(position[n][v], position'[n][v], price)
    BY <1>1, <1>3, LeftBehindType DEF PositionTables
<1>5. gain <= amount[t][m] + amount[u][m]
    BY <1>1, <1>3, <1>4
<1>6. left = SumTo([v \in Traders |-> SumTo([n \in Markets |->
                    LeftBehind(position[n][v], position'[n][v], price)],
                                                NumMarkets)], NumTraders)
    BY <1>4
<1>7. amount[t][m] \in Nat /\ amount[u][m] \in Nat
    BY <1>1, <1>4
<1>8. left \in Nat /\ amount[t][m] + amount[u][m] <= left
    <2>1. \A v \in Traders, n \in Markets : amount[v][n] \in Nat
        BY <1>4
    <2> HIDE DEF amount
    <2>2. QED
        BY <1>1, <2>1, TwoOfTotal
<1>9. gain \in Int
    <2>1. /\ ledger \in Ledgers /\ ledger' \in Ledgers /\ Pool \in Accounts
        BY EngineAssumption, ExchangeStep DEF Exchanged, SInv, IInv, TypeOK
    <2>2. Spendable(ledger, Pool) \in Int /\ Spendable(ledger', Pool) \in Int
        BY <2>1, LedgerAssumption DEF Spendable, Ledgers, U64
    <2>3. TotalMargin(position) \in Int /\ TotalMargin(position') \in Int
        BY <1>1, <1>3, MarginsType
    <2>4. QED
        BY <2>2, <2>3 DEF PoolSurplus
<1> HIDE DEF gain, left, amount
<1>10. gain <= left
    BY <1>5, <1>7, <1>8, <1>9
<1>11. QED
    BY <1>6, <1>10 DEF gain

\* Margin freed by a trade goes back to its trader, for every pair of fills:
\* the pool keeps at most what the traded positions lost and what rounding
\* their average entries down freed.
THEOREM NothingIsStranded == SettlementOnAnyEngine => NothingStranded
<1> DEFINE Returned ==
        (fills' # fills /\ config.fee_recipient # Pool) =>
            \E maker, taker \in SignedOrders, price \in Prices :
                /\ \A o \in {maker, taker} : fills'[<<o.trader, o.nonce>>]
                                                # fills[<<o.trader, o.nonce>>]
                /\ maker.is_long # taker.is_long /\ WithinPrices(maker, taker, price)
                /\ StrandsNothing(price)
<1>1. ASSUME SInv, [SettlementNext]_svars
      PROVE  Returned
    <2> SUFFICES ASSUME fills' # fills, config.fee_recipient # Pool
                 PROVE  Returned
        OBVIOUS
    <2>1. PICK op, with_maker, with_taker :
             \E maker, taker \in SignedOrders, price \in Prices, m \in Markets, size \in Nat :
                SettleOne(op, maker, taker, price, size, with_maker, with_taker, m)
        BY <1>1, OnlySettlementsSettle
    <2>2. PICK maker \in SignedOrders, taker \in SignedOrders, price \in Prices,
               m \in Markets, size \in Nat :
                SettleOne(op, maker, taker, price, size, with_maker, with_taker, m)
        BY <2>1
    <2>3. StrandsNothing(price)
        BY <1>1, <2>2, SettlementStrandsNothing DEF StrandsNothing
    <2>4. maker.is_long # taker.is_long /\ WithinPrices(maker, taker, price)
        BY <1>1, <2>2, Sides
    <2>5. \A o \in {maker, taker} : fills'[<<o.trader, o.nonce>>] # fills[<<o.trader, o.nonce>>]
        <3>1. \A o \in {maker, taker} : /\ fills[<<o.trader, o.nonce>>] = 0
                                        /\ fills'[<<o.trader, o.nonce>>] = 1
            BY <1>1, <2>2, NonceStep
        <3>2. QED
            BY <3>1
    <2>6. QED
        BY <2>3, <2>4, <2>5
<1> HIDE DEF Returned
<1>2. SettlementOnAnyEngine => [][Returned]_svars
    BY <1>1, SettlementInvariance, PTL DEF SettlementOnAnyEngine
<1>3. QED
    BY <1>2 DEF NothingStranded, Returned

--------------------------------------------------------------------------------
(* A commit binds *)

\* A snapshot that says when it was taken is complete.
LEMMA CommittedTerms ==
    ASSUME SInv, NEW o \in SignedOrders, Committed(o)
    PROVE  /\ snapshot[o] \in SnapshotRecord
           /\ snapshot[o].commit_time \in Nat /\ snapshot[o].min_settlement_delay \in Nat
           /\ snapshot[o].maker_fee_bps \in Nat /\ snapshot[o].taker_fee_bps \in Nat
           /\ snapshot[o].tiers \in TierChoices
<1>1. snapshot[o] \in SnapshotRecord \cup {NoSnapshot}
    BY Parts
<1>2. snapshot[o] # NoSnapshot
    BY DEF Committed, NoSnapshot
<1>3. snapshot[o] \in SnapshotRecord
    BY <1>1, <1>2
<1>4. QED
    BY <1>3, SettlementAssumption DEF SnapshotRecord

\* While a delay is in force no order settles without its commit, and none
\* before the later of the two commits allows it.
LEMMA SettlementWaits ==
    ASSUME SInv, NEW op, NEW maker \in SignedOrders, NEW taker \in SignedOrders,
           NEW price \in Prices, NEW size \in Nat, NEW with_maker, NEW with_taker, NEW m \in Markets,
           SettleOne(op, maker, taker, price, size, with_maker, with_taker, m),
           config.min_settlement_delay > 0
    PROVE  /\ with_maker /\ with_taker
           /\ Committed(maker) /\ Committed(taker)
           /\ \E o \in {maker, taker} :
                 /\ \A p \in {maker, taker} : snapshot[p].commit_time <= snapshot[o].commit_time
                 /\ now >= snapshot[o].commit_time + snapshot[o].min_settlement_delay
<1>1. DelayPassed(maker, taker, with_maker, with_taker)
    BY DEF SettleOne
<1>2. config.min_settlement_delay # 0
    BY Parts DEF ConfigSound, ConfigRecord
<1>3. with_maker /\ with_taker
    BY <1>1, <1>2 DEF DelayPassed
<1>4. Committed(maker) /\ Committed(taker)
    BY <1>3 DEF SettleOne
<1> DEFINE a == snapshot[maker].commit_time
           b == snapshot[taker].commit_time
<1>5. a \in Nat /\ b \in Nat
    BY <1>4, CommittedTerms
<1>6. CASE a > b
    <2>1. now >= snapshot[maker].commit_time + snapshot[maker].min_settlement_delay
        BY <1>1, <1>3, <1>6 DEF DelayPassed
    <2>2. \A p \in {maker, taker} : snapshot[p].commit_time <= snapshot[maker].commit_time
        BY <1>5, <1>6
    <2>3. QED
        BY <1>3, <1>4, <2>1, <2>2
<1>7. CASE ~ (a > b)
    <2>1. now >= snapshot[taker].commit_time + snapshot[taker].min_settlement_delay
        BY <1>1, <1>3, <1>7 DEF DelayPassed
    <2>2. \A p \in {maker, taker} : snapshot[p].commit_time <= snapshot[taker].commit_time
        BY <1>5, <1>7
    <2>3. QED
        BY <1>3, <1>4, <2>1, <2>2
<1>8. QED
    BY <1>6, <1>7

\* While a delay is in force the two fees stay within the committed rates.
LEMMA SettlementCharges ==
    ASSUME SInv, NEW op, NEW maker \in SignedOrders, NEW taker \in SignedOrders,
           NEW price \in Prices, NEW size \in Nat, NEW with_maker, NEW with_taker, NEW m \in Markets,
           SettleOne(op, maker, taker, price, size, with_maker, with_taker, m),
           config.min_settlement_delay > 0, config.fee_recipient \notin Traders \cup {Pool}
    PROVE  LET traded == Abs(position'[m][maker.trader].size - position[m][maker.trader].size)
               limit == IF maker.is_long THEN maker.price ELSE taker.price
           IN  Spendable(ledger', config.fee_recipient) - Spendable(ledger, config.fee_recipient)
                  <= Share(snapshot[maker].maker_fee_bps + snapshot[taker].taker_fee_bps
                               + snapshot[taker].tiers[3], Notional(traded, limit))
<1> DEFINE limit == IF maker.is_long THEN maker.price ELSE taker.price
           n == Notional(size, price)
           k == Notional(size, limit)
           extra == SpreadExtra(market[m], taker.is_long, snapshot[taker])
           r1 == snapshot[maker].maker_fee_bps
           r2 == snapshot[taker].taker_fee_bps
           r3 == snapshot[taker].tiers[3]
           x == Spendable(ledger, config.fee_recipient)
           y == Spendable(ledger', config.fee_recipient)
           traded == Abs(position'[m][maker.trader].size - position[m][maker.trader].size)
<1>1. with_maker /\ with_taker /\ Committed(maker) /\ Committed(taker)
    BY SettlementWaits
<1>2. /\ maker.is_long \in BOOLEAN /\ taker.is_long \in BOOLEAN /\ maker.is_long # taker.is_long
      /\ maker.price \in Nat /\ taker.price \in Nat /\ price \in Nat
      /\ WithinPrices(maker, taker, price)
      /\ position[m][maker.trader].size \in Int
    BY Sides
<1>3. limit \in Nat /\ price <= limit
    BY <1>2 DEF WithinPrices
<1>4. r1 \in Nat /\ r2 \in Nat /\ snapshot[taker].tiers \in TierChoices
    BY <1>1, CommittedTerms
<1>5. extra \in Nat /\ r3 \in Nat /\ extra <= r3
    BY <1>2, <1>4, SpreadWithinTiers
<1>6. n \in Nat /\ k \in Nat /\ n <= k
    <2> HIDE DEF limit
    <2>1. QED
        BY <1>2, <1>3, NotionalMonotone, NotionalType
<1>7. /\ MakerFee(maker, with_maker, price, size) = Share(r1, n)
      /\ TakerFee(taker, with_taker, m, price, size) = Share(r2 + extra, n)
    BY <1>1 DEF MakerFee, TakerFee, TermsFor
<1>8. y = x + (Share(r1, n) + Share(r2 + extra, n))
    <2> DEFINE fees == MakerFee(maker, with_maker, price, size)
                         + TakerFee(taker, with_taker, m, price, size)
    <2>1. Exchanged(maker, taker, m, price, size, fees)
        BY ExchangeStep
    <2> HIDE DEF fees
    <2>2. y = x + fees
        BY <2>1 DEF Exchanged
    <2>3. QED
        BY <1>7, <2>2 DEF fees
<1>9. traded = size
    <2>1. PositionsTraded(maker, taker, m, price, size)
        BY Traded
    <2>2. position'[m][maker.trader].size = position[m][maker.trader].size + Delta(maker, size)
        BY <2>1 DEF PositionsTraded
    <2>3. size > 0
        BY Sides
    <2>4. QED
        BY <1>2, <2>2, <2>3 DEF Delta, Abs
<1>10. x \in Int
    <2>1. ledger \in Ledgers /\ config.fee_recipient \in Accounts
        BY DEF SInv, SettlementTypeOK, IInv, TypeOK
    <2>2. QED
        BY <2>1, LedgerAssumption DEF Spendable, Ledgers, U64
<1> HIDE DEF n, k, extra, r1, r2, r3, x, y, traded, limit
<1> DEFINE g == r2 + extra
           r == r1 + r2 + r3
<1>11. g \in Nat /\ r \in Nat /\ r1 + g <= r
    BY <1>4, <1>5
<1>12. y = x + (Share(r1, n) + Share(g, n))
    BY <1>8
<1> HIDE DEF g, r
<1>13. Share(r1, n) + Share(g, n) <= Share(r, k)
    BY <1>4, <1>6, <1>11, FeesWithin
<1>14. Share(r1, n) \in Nat /\ Share(g, n) \in Nat /\ Share(r, k) \in Nat
    BY <1>4, <1>6, <1>11, ShareType
<1>15. y - x <= Share(r, k)
    BY <1>10, <1>12, <1>13, <1>14
<1>16. k = Notional(traded, limit)
    BY <1>9 DEF k
<1>17. QED
    BY <1>15, <1>16 DEF x, y, r, r1, r2, r3, traded, limit

\* No step changes a snapshot once it is taken.
LEMMA SnapshotsStay ==
    ASSUME SInv, [SettlementNext]_svars, NEW o \in SignedOrders, Committed(o)
    PROVE  snapshot'[o] = snapshot[o]
<1>1. CASE UNCHANGED svars
    BY <1>1 DEF svars, settlement
<1>2. CASE RelayerStep /\ UNCHANGED changes
    <2>1. PICK op \in Relayers :
        \/ \E s \in SignedOrders : CommitOrder(op, s)
        \/ \E pair \in Pairs, price \in Prices, m \in Markets, with_maker, with_taker \in BOOLEAN :
              \E size \in 1 .. pair[1].size :
                  SettleOne(op, pair[1], pair[2], price, size, with_maker, with_taker, m)
        BY <1>2 DEF RelayerStep
    <2>2. CASE \E s \in SignedOrders : CommitOrder(op, s)
        BY <1>2, <2>2, CommitStep
    <2>3. CASE \E pair \in Pairs, price \in Prices, m \in Markets, with_maker, with_taker \in BOOLEAN :
                 \E size \in 1 .. pair[1].size :
                     SettleOne(op, pair[1], pair[2], price, size, with_maker, with_taker, m)
        BY <2>3 DEF SettleOne
    <2>4. QED
        BY <2>1, <2>2, <2>3
<1>3. CASE EngineStep /\ UNCHANGED changes
    BY <1>3, EngineStepKeeps
<1>4. CASE Tick /\ UNCHANGED changes
    BY <1>4, TickKeeps
<1>5. CASE OwnersStep
    BY <1>5, OwnersStepKeeps
<1>6. QED
    BY <1>1, <1>2, <1>3, <1>4, <1>5 DEF SettlementNext

\* A commit binds the owner: whatever fees, tiers and delays are set after it,
\* an order settles at the fees and after the delay of its own commit.
THEOREM CommitsAlwaysBind == SettlementOnAnyEngine => CommitsBind
<1> DEFINE Charged ==
        (/\ fills' # fills
         /\ config.min_settlement_delay > 0
         /\ config.fee_recipient \notin Traders \cup {Pool}) =>
          \E maker, taker \in SignedOrders, m \in Markets :
              LET traded == Abs(position'[m][maker.trader].size - position[m][maker.trader].size)
                  limit == IF maker.is_long THEN maker.price ELSE taker.price
              IN  /\ Committed(maker) /\ Committed(taker)
                  /\ maker.trader # taker.trader
                  /\ \A o \in {maker, taker} : fills'[<<o.trader, o.nonce>>]
                                                  # fills[<<o.trader, o.nonce>>]
                  /\ Spendable(ledger', config.fee_recipient)
                        - Spendable(ledger, config.fee_recipient)
                      <= Share(snapshot[maker].maker_fee_bps + snapshot[taker].taker_fee_bps
                                   + snapshot[taker].tiers[3], Notional(traded, limit))
           Waited ==
        (fills' # fills /\ config.min_settlement_delay > 0) =>
          \E maker, taker \in SignedOrders :
              /\ Committed(maker) /\ Committed(taker)
              /\ maker.trader # taker.trader
              /\ \A o \in {maker, taker} : fills'[<<o.trader, o.nonce>>]
                                              # fills[<<o.trader, o.nonce>>]
              /\ \E o \in {maker, taker} :
                    /\ \A p \in {maker, taker} : snapshot[p].commit_time <= snapshot[o].commit_time
                    /\ now >= snapshot[o].commit_time + snapshot[o].min_settlement_delay
           Stayed ==
        \A o \in SignedOrders : Committed(o) => snapshot'[o] = snapshot[o]
<1>1. ASSUME SInv, [SettlementNext]_svars
      PROVE  Charged /\ Waited /\ Stayed
    <2>1. Stayed
        BY <1>1, SnapshotsStay
    <2>2. CASE fills' # fills /\ config.min_settlement_delay > 0
        <3>1. PICK op, with_maker, with_taker :
                 \E maker, taker \in SignedOrders, price \in Prices, m \in Markets, size \in Nat :
                    SettleOne(op, maker, taker, price, size, with_maker, with_taker, m)
            BY <1>1, <2>2, OnlySettlementsSettle
        <3>2. PICK maker \in SignedOrders, taker \in SignedOrders, price \in Prices,
                   m \in Markets, size \in Nat :
                    SettleOne(op, maker, taker, price, size, with_maker, with_taker, m)
            BY <3>1
        <3>3. maker.trader # taker.trader
            BY <1>1, <3>2, Sides
        <3>4. \A o \in {maker, taker} : fills'[<<o.trader, o.nonce>>] # fills[<<o.trader, o.nonce>>]
            <4>1. \A o \in {maker, taker} : /\ fills[<<o.trader, o.nonce>>] = 0
                                            /\ fills'[<<o.trader, o.nonce>>] = 1
                BY <1>1, <3>2, NonceStep
            <4>2. QED
                BY <4>1
        <3>5. /\ Committed(maker) /\ Committed(taker)
              /\ \E o \in {maker, taker} :
                    /\ \A p \in {maker, taker} : snapshot[p].commit_time <= snapshot[o].commit_time
                    /\ now >= snapshot[o].commit_time + snapshot[o].min_settlement_delay
            BY <1>1, <2>2, <3>2, SettlementWaits
        <3>6. Waited
            BY <3>3, <3>4, <3>5
        <3>7. Charged
            <4> SUFFICES ASSUME config.fee_recipient \notin Traders \cup {Pool}
                         PROVE  Charged
                OBVIOUS
            <4>1. LET traded == Abs(position'[m][maker.trader].size - position[m][maker.trader].size)
                      limit == IF maker.is_long THEN maker.price ELSE taker.price
                  IN  Spendable(ledger', config.fee_recipient) - Spendable(ledger, config.fee_recipient)
                        <= Share(snapshot[maker].maker_fee_bps + snapshot[taker].taker_fee_bps
                                     + snapshot[taker].tiers[3], Notional(traded, limit))
                BY <1>1, <2>2, <3>2, SettlementCharges
            <4>2. QED
                BY <3>3, <3>4, <3>5, <4>1
        <3>8. QED
            BY <2>1, <3>6, <3>7
    <2>3. CASE ~ (fills' # fills /\ config.min_settlement_delay > 0)
        BY <2>1, <2>3
    <2>4. QED
        BY <2>2, <2>3
<1> HIDE DEF Charged, Waited, Stayed
<1>2. /\ SettlementOnAnyEngine => [][Charged]_svars
      /\ SettlementOnAnyEngine => [][Waited]_svars
      /\ SettlementOnAnyEngine => [][Stayed]_svars
    BY <1>1, SettlementInvariance, PTL DEF SettlementOnAnyEngine
<1>3. SettlementOnAnyEngine => FeesAsCommitted
    BY <1>2 DEF FeesAsCommitted, Charged
<1>4. SettlementOnAnyEngine => DelayAsCommitted
    BY <1>2 DEF DelayAsCommitted, Waited
<1>5. SettlementOnAnyEngine => CommitsFinal
    BY <1>2 DEF CommitsFinal, Stayed
<1>6. QED
    BY <1>3, <1>4, <1>5 DEF CommitsBind

--------------------------------------------------------------------------------
\* All of it for the system a deployment leaves, which the run checks on a
\* small instance: SettlementOnAnyEngine allows what SettlementSpec does.
THEOREM DeployedSettlement ==
    SettlementSpec => /\ []SettlementInv
                      /\ TradesMatch /\ NothingStranded
                      /\ SignedTermsKept /\ CommitsBind
BY DeploymentIsAnEngine, SettlementBooks, TradesAlwaysMatch, NothingIsStranded,
   SignedTermsAlwaysKept, CommitsAlwaysBind

--------------------------------------------------------------------------------
(* The dark pool *)

\* As for the settlement, on any engine whose books are sound.
DarkPoolOnAnyEngine == IInv /\ DarkInit /\ [][DarkNext]_dvars

\* A response is another agent's, at a price in the intent's range.
Counterparties ==
    \A r \in DOMAIN response :
        /\ intent[response[r].intent_id].agent # response[r].agent
        /\ response[r].price \in intent[response[r].intent_id].min_price
                                    .. intent[response[r].intent_id].max_price

\* The inductive invariant.
DInv == IInv /\ DarkTypeOK /\ FilledOnce /\ Counterparties /\ ReputationEarned

DarkConfig ==
    [owner : Owners, pending_owner : Owners \cup {NoKey}, paused : BOOLEAN,
     fee_bps : Fees, fee_recipient : Recipients,
     large_trade_threshold : Thresholds, large_trade_min_reputation : Scores]
Reputations(time) ==
    [completed_trades : Nat, total_volume : U64, expired_intents : Nat,
     cancelled_responses : Nat, last_response_time : 0 .. time]

\* What the records of the pool hold, in the words of the lemmas.
LEMMA PoolFacts ==
    ASSUME DInv
    PROVE  /\ config \in DarkConfig /\ config.fee_recipient \in Accounts
           /\ intent \in Seq(IntentRecords) /\ DOMAIN intent = 1 .. Len(intent)
           /\ response \in Seq(ResponseRecords) /\ DOMAIN response = 1 .. Len(response)
           /\ Len(intent) \in Nat /\ Len(response) \in Nat
           /\ \A i \in DOMAIN intent : intent[i] \in IntentRecords
           /\ \A r \in DOMAIN response : /\ response[r] \in ResponseRecords
                                         /\ response[r].intent_id \in DOMAIN intent
           /\ reputation \in [Agents -> Reputations(now)]
           /\ now \in Nat
<1>1. /\ config \in DarkConfig
      /\ intent \in Seq(IntentRecords) /\ response \in Seq(ResponseRecords)
      /\ reputation \in [Agents -> Reputations(now)]
    BY DEF DInv, DarkTypeOK, DarkConfig, Reputations
<1>2. config.fee_recipient \in Accounts
    BY <1>1, DarkPoolAssumption DEF DarkConfig
<1>3. /\ DOMAIN intent = 1 .. Len(intent) /\ DOMAIN response = 1 .. Len(response)
      /\ Len(intent) \in Nat /\ Len(response) \in Nat
    BY <1>1
<1>4. /\ \A i \in DOMAIN intent : intent[i] \in IntentRecords
      /\ \A r \in DOMAIN response : response[r] \in ResponseRecords
    BY <1>1, <1>3, ElementOfSeq
<1>5. now \in Nat
    BY VenueAssumption DEF DInv, DarkTypeOK, Now
<1>6. QED
    BY <1>1, <1>2, <1>3, <1>4, <1>5 DEF DInv, FilledOnce

\* An intent and a response to it.
LEMMA PartyFacts ==
    ASSUME DInv, NEW i \in DOMAIN intent, NEW r \in DOMAIN response, response[r].intent_id = i
    PROVE  /\ intent[i].market_id \in Markets
           /\ intent[i].size \in Nat \ {0} /\ response[r].price \in U64
           /\ intent[i].fee_bps_at_post \in Nat
           /\ Buyer(i, r) \in Traders /\ Seller(i, r) \in Traders /\ Buyer(i, r) # Seller(i, r)
           /\ {Buyer(i, r), Seller(i, r)} = {intent[i].agent, response[r].agent}
           /\ intent[i].agent \in Agents /\ response[r].agent \in Agents
           /\ response[r].price \in intent[i].min_price .. intent[i].max_price
<1>1. intent[i] \in IntentRecords /\ response[r] \in ResponseRecords
    BY PoolFacts
<1>2. /\ intent[i].agent # response[r].agent
      /\ response[r].price \in intent[i].min_price .. intent[i].max_price
    BY DEF DInv, Counterparties
<1>3. /\ intent[i].agent \in Agents /\ response[r].agent \in Agents
      /\ intent[i].market_id \in Markets /\ response[r].price \in U64
      /\ intent[i].size \in U64 \ {0} /\ intent[i].is_buy \in BOOLEAN
      /\ intent[i].fee_bps_at_post \in Fees
    BY <1>1 DEF IntentRecords, ResponseRecords
<1>4. intent[i].size \in Nat \ {0} /\ intent[i].fee_bps_at_post \in Nat
    BY <1>3, LedgerAssumption, DarkPoolAssumption DEF U64
<1>5. QED
    BY <1>2, <1>3, <1>4 DEF Buyer, Seller, Agents

--------------------------------------------------------------------------------
(* A settlement between two agents *)

\* What it does to the books of engine and vault: buyer t, seller u.
DealDone(m, t, u, size, price, fee) ==
    /\ IInv'
    /\ TotalBalance(ledger') = TotalBalance(ledger)
    /\ TotalCollateral(ledger') = TotalCollateral(ledger)
    /\ config.fee_recipient \notin Traders \cup {Pool} =>
          Spendable(ledger', config.fee_recipient)
              = Spendable(ledger, config.fee_recipient) + fee + fee
    /\ position' \in PositionTables
    /\ \A n \in Markets, v \in Traders :
          n # m \/ v \notin {t, u} => position'[n][v] = position[n][v]
    /\ position'[m][t].size = position[m][t].size + size
    /\ position'[m][u].size = position[m][u].size - size
    /\ \A v \in {t, u} : position[m][v].size = 0 => position'[m][v].entry_price = price
    /\ \A n \in Markets : NetSize(position', n) = NetSize(position, n)

LEMMA DealStep ==
    ASSUME DInv, NEW agent, NEW i \in DOMAIN intent, NEW r \in DOMAIN response,
           AcceptAndSettle(agent, i, r)
    PROVE  DealDone(intent[i].market_id, Buyer(i, r), Seller(i, r),
                    intent[i].size, response[r].price, FeePerSide(i, r))
<1> DEFINE m == intent[i].market_id
           t == Buyer(i, r)
           u == Seller(i, r)
           size == intent[i].size
           price == response[r].price
           to == config.fee_recipient
           fee == FeePerSide(i, r)
           half == Leg(Books, m, t, size, price)
           b == Leg(half, m, u, -size, price)
           charged == Paid(Paid(b.ledger, t, to, fee), u, to, fee)
           after == WithLedger(b, charged)
<1>1. /\ response[r].intent_id = i
      /\ fee \in U64
      /\ UNCHANGED <<admin, engine_pool, vault_gate>>
    BY DEF AcceptAndSettle
<1>2. /\ LegAllowed(Books, dp, m, t, size, price)
      /\ LegAllowed(half, dp, m, u, -size, price)
      /\ FeePayable(b.ledger, t, to, fee)
      /\ FeePayable(Paid(b.ledger, t, to, fee), u, to, fee)
      /\ Becomes(after)
    BY DEF AcceptAndSettle, FeesPayable, BothCharged
<1>3. /\ m \in Markets /\ t \in Traders /\ u \in Traders /\ t # u
      /\ size \in Int /\ -size \in Int /\ price \in U64 /\ fee \in Nat
      /\ to \in Accounts
    BY <1>1, PartyFacts, PoolFacts, LedgerAssumption DEF U64
<1>4. IInv /\ vault_gate \in VaultGates /\ Sound(Books) /\ ledger \in Ledgers
    BY SoundBooks DEF DInv, AdminTyped, IInv, TypeOK
<1>5. Books.position = position /\ Books.ledger = ledger
    BY DEF Books
<1> DEFINE b0 == Books
           d == -size
<1>6. b0.position = position /\ b0.ledger = ledger /\ Sound(b0)
    BY <1>4, <1>5
<1> HIDE DEF m, t, u, size, price, to, fee, b0
<1>7. PICK p \in PositionRecord, q \in PositionRecord :
          /\ p.size = position[m][t].size + size
          /\ q.size = position[m][u].size + d
          /\ PairDone(b0, b, m, t, u, p, q, price)
    <2>1. half = Leg(b0, m, t, size, price) /\ b = Leg(half, m, u, d, price) /\ d \in Int
          /\ LegAllowed(b0, dp, m, t, size, price) /\ LegAllowed(half, dp, m, u, d, price)
        BY <1>2, <1>3 DEF b0
    <2> HIDE DEF half, b, d
    <2>2. \E p, q \in PositionRecord :
              /\ p.size = b0.position[m][t].size + size
              /\ q.size = b0.position[m][u].size + d
              /\ PairDone(b0, Leg(half, m, u, d, price), m, t, u, p, q, price)
        BY <1>3, <1>4, <1>6, <2>1, PairStep
    <2>3. QED
        BY <1>6, <2>1, <2>2
<1> HIDE DEF half, b
<1>8. /\ Sound(b) /\ b.ledger \in Ledgers
      /\ b.position = Replace(Replace(position, m, t, p), m, u, q)
      /\ TotalBalance(b.ledger) = TotalBalance(ledger)
      /\ TotalCollateral(b.ledger) = TotalCollateral(ledger)
      /\ to \notin Traders \cup {Pool} => Spendable(b.ledger, to) = Spendable(ledger, to)
      /\ position[m][t].size = 0 => p.entry_price = price
      /\ position[m][u].size = 0 => q.entry_price = price
    <2>1. Sound(b)
        BY <1>7 DEF PairDone
    <2>2. b.ledger \in Ledgers
        BY <2>1 DEF Sound, BookRecord
    <2>3. QED
        BY <1>3, <1>6, <1>7, <2>1, <2>2 DEF PairDone, Replace
<1>9. /\ charged \in Ledgers
      /\ TotalBalance(charged) = TotalBalance(b.ledger)
      /\ TotalCollateral(charged) = TotalCollateral(b.ledger)
      /\ to \notin Traders => Spendable(charged, to) = Spendable(b.ledger, to) + fee + fee
    BY <1>2, <1>3, <1>4, <1>8, FeeStep
<1> HIDE DEF charged
<1>10. /\ Sound(after)
       /\ after.position = b.position /\ after.ledger = charged
    BY <1>8, <1>9, OtherLedger
<1>11. /\ market' = after.market /\ position' = after.position /\ ledger' = charged
       /\ after \in BookRecord
    BY <1>2, <1>10 DEF Becomes, Sound
<1> HIDE DEF after
<1>12. IInv'
    <2>1. Books' = after
        BY <1>10, <1>11 DEF Books, BookRecord
    <2>2. Sound(Books')
        BY <1>10, <2>1
    <2>3. Sound(Books)'
        BY <2>2 DEF Sound, InterestExact, PositionSound, MarketSound
    <2>4. AdminTyped'
        BY <1>1, <1>4, SoundBooks DEF AdminTyped, admin
    <2>5. QED
        BY <2>3, <2>4, SoundBooks
<1>13. /\ TotalBalance(ledger') = TotalBalance(ledger)
       /\ TotalCollateral(ledger') = TotalCollateral(ledger)
       /\ to \notin Traders \cup {Pool} => Spendable(ledger', to) = Spendable(ledger, to) + fee + fee
       /\ position' = Replace(Replace(position, m, t, p), m, u, q)
    BY <1>8, <1>9, <1>10, <1>11
<1>14. /\ position \in PositionTables
       /\ position[m][t].size \in Int /\ position[m][u].size \in Int
    <2>1. position \in PositionTables
        BY <1>4 DEF IInv, TypeOK, PositionTables, PositionRecord
    <2>2. QED
        BY <1>3, <2>1, LedgerAssumption DEF PositionTables, PositionRecord, I64, MaxI64
<1> DEFINE x == position[m][t].size
           y == position[m][u].size
<1>15. p.size + q.size = x + y /\ q.size = y - size
    <2>1. p.size = x + size /\ q.size = y + d /\ x \in Int /\ y \in Int /\ d = -size
        BY <1>7, <1>14
    <2> HIDE DEF x, y, d
    <2>2. QED
        BY <1>3, <2>1
<1> DEFINE swapped == Replace(Replace(position, m, t, p), m, u, q)
<1>16. /\ swapped \in PositionTables
       /\ swapped[m][t] = p /\ swapped[m][u] = q
       /\ \A n \in Markets, v \in Traders :
             n # m \/ v \notin {t, u} => swapped[n][v] = position[n][v]
       /\ p.size + q.size = position[m][t].size + position[m][u].size =>
             \A n \in Markets : NetSize(swapped, n) = NetSize(position, n)
    BY <1>3, <1>14, TwoPositions
<1> HIDE DEF swapped
<1>17. DealDone(m, t, u, size, price, fee)
    BY <1>7, <1>8, <1>12, <1>13, <1>15, <1>16 DEF DealDone, swapped, to
<1>18. QED
    BY <1>17 DEF m, t, u, size, price, fee

--------------------------------------------------------------------------------
(* The records *)

\* What is final stays and terms never change: the body of StatusesFinal.
RecordsStay ==
    /\ \A i \in DOMAIN intent :
          /\ intent[i].status # "Open" => intent'[i] = intent[i]
          /\ intent'[i] = [intent[i] EXCEPT !.status = intent'[i].status,
                              !.filled_response_id = intent'[i].filled_response_id]
    /\ \A r \in DOMAIN response :
          /\ response[r].status # "Pending" => response'[r] = response[r]
          /\ response'[r] = [response[r] EXCEPT !.status = response'[r].status]

RecordsKept == FilledOnce' /\ Counterparties' /\ ReputationEarned' /\ RecordsStay

LEMMA RowTypes ==
    ASSUME DInv, NEW a \in Agents
    PROVE  /\ TradesOf(a) \in [1 .. Len(response) -> Nat]
           /\ TradesOf(a) \in [1 .. Len(response) -> Int]
           /\ VolumesOf(a) \in [1 .. Len(response) -> Nat]
           /\ VolumesOf(a) \in [1 .. Len(response) -> Int]
           /\ IntentsWithdrawnBy(a) \in [1 .. Len(intent) -> Int]
           /\ ResponsesWithdrawnBy(a) \in [1 .. Len(response) -> Int]
<1>1. /\ DOMAIN intent = 1 .. Len(intent) /\ DOMAIN response = 1 .. Len(response)
      /\ \A r \in DOMAIN response : response[r].intent_id \in DOMAIN intent
    BY PoolFacts
<1>2. ASSUME NEW r \in DOMAIN response
      PROVE  TradeNotional(response[r].intent_id, r) \in Nat
    <2>1. /\ intent[response[r].intent_id].size \in Nat
          /\ response[r].price \in Nat
        BY <1>1, PartyFacts, LedgerAssumption DEF U64
    <2>2. Notional(intent[response[r].intent_id].size, response[r].price) \in Nat
        BY <2>1, NotionalType
    <2>3. QED
        BY <2>2 DEF TradeNotional
<1>3. /\ TradesOf(a) \in [1 .. Len(response) -> Nat]
      /\ TradesOf(a) \in [1 .. Len(response) -> Int]
    BY <1>1 DEF TradesOf
<1>4. /\ VolumesOf(a) \in [1 .. Len(response) -> Nat]
      /\ VolumesOf(a) \in [1 .. Len(response) -> Int]
    BY <1>1, <1>2 DEF VolumesOf
<1>5. /\ IntentsWithdrawnBy(a) \in [1 .. Len(intent) -> Int]
      /\ ResponsesWithdrawnBy(a) \in [1 .. Len(response) -> Int]
    BY <1>1 DEF IntentsWithdrawnBy, ResponsesWithdrawnBy
<1>6. QED
    BY <1>3, <1>4, <1>5

\* While records stay, so do the parties and the volume of a trade.
LEMMA PartiesStay ==
    ASSUME DInv, RecordsStay, NEW r \in DOMAIN response, NEW a \in Agents
    PROVE  /\ response'[r].intent_id = response[r].intent_id
           /\ response'[r].agent = response[r].agent
           /\ TradeNotional(response[r].intent_id, r)' = TradeNotional(response[r].intent_id, r)
           /\ SettledBy(a, r)' <=> /\ response'[r].status = "Accepted"
                                   /\ a \in {response[r].agent, intent[response[r].intent_id].agent}
<1>1. /\ response[r] \in ResponseRecords /\ response[r].intent_id \in DOMAIN intent
      /\ intent[response[r].intent_id] \in IntentRecords
    BY PoolFacts
<1>2. /\ response'[r].intent_id = response[r].intent_id
      /\ response'[r].agent = response[r].agent
      /\ response'[r].price = response[r].price
    BY <1>1 DEF RecordsStay, ResponseRecords
<1>3. /\ intent'[response[r].intent_id].agent = intent[response[r].intent_id].agent
      /\ intent'[response[r].intent_id].size = intent[response[r].intent_id].size
    BY <1>1 DEF RecordsStay, IntentRecords
<1>4. TradeNotional(response[r].intent_id, r)' = TradeNotional(response[r].intent_id, r)
    BY <1>2, <1>3 DEF TradeNotional
<1>5. intent'[response'[r].intent_id].agent = intent[response[r].intent_id].agent
    BY <1>2, <1>3
<1>6. SettledBy(a, r)' <=> /\ response'[r].status = "Accepted"
                           /\ a \in {response[r].agent, intent[response[r].intent_id].agent}
    BY <1>2, <1>5 DEF SettledBy
<1>7. QED
    BY <1>2, <1>4, <1>6

\* A new intent.
LEMMA IntentAdded ==
    ASSUME DInv, NEW new \in IntentRecords, new.status = "Open", new.filled_response_id = 0,
           intent' = Append(intent, new), UNCHANGED <<response, reputation>>
    PROVE  RecordsKept
<1>1. /\ intent \in Seq(IntentRecords) /\ DOMAIN intent = 1 .. Len(intent)
      /\ Len(intent) \in Nat
      /\ DOMAIN response = 1 .. Len(response)
      /\ \A r \in DOMAIN response : response[r].intent_id \in DOMAIN intent
    BY PoolFacts
<1> DEFINE n == Len(intent)
<1>2. /\ intent' \in Seq(IntentRecords) /\ Len(intent') = n + 1
      /\ DOMAIN intent' = 1 .. n + 1
      /\ \A i \in 1 .. n : intent'[i] = intent[i]
      /\ intent'[n + 1] = new
    BY <1>1, AppendProperties
<1>3. RecordsStay
    BY <1>1, <1>2, PoolFacts DEF RecordsStay, IntentRecords, ResponseRecords
<1>4. FilledOnce'
    <2>1. FilledOnce
        BY DEF DInv
    <2>2. QED
        BY <1>1, <1>2, <2>1 DEF FilledOnce
<1>5. Counterparties'
    <2>1. Counterparties
        BY DEF DInv
    <2>2. QED
        BY <1>1, <1>2, <2>1 DEF Counterparties
<1>6. ReputationEarned'
    <2> SUFFICES ASSUME NEW a \in Agents
                 PROVE  /\ reputation'[a].completed_trades = SumTo(TradesOf(a)', Len(response)')
                        /\ reputation'[a].total_volume
                              = AtMost(MaxU64, SumTo(VolumesOf(a)', Len(response)'))
                        /\ reputation'[a].expired_intents
                              = SumTo(IntentsWithdrawnBy(a)', Len(intent)')
                        /\ reputation'[a].cancelled_responses
                              = SumTo(ResponsesWithdrawnBy(a)', Len(response)')
        BY DEF ReputationEarned
    <2>1. ReputationEarned
        BY DEF DInv
    <2>2. /\ TradesOf(a)' = TradesOf(a) /\ VolumesOf(a)' = VolumesOf(a)
          /\ ResponsesWithdrawnBy(a)' = ResponsesWithdrawnBy(a)
        <3>1. \A r \in DOMAIN response :
                 /\ SettledBy(a, r)' <=> SettledBy(a, r)
                 /\ TradeNotional(response[r].intent_id, r)'
                       = TradeNotional(response[r].intent_id, r)
            BY <1>1, <1>2 DEF SettledBy, TradeNotional
        <3>2. QED
            BY <3>1 DEF TradesOf, VolumesOf, ResponsesWithdrawnBy
    <2>3. SumTo(IntentsWithdrawnBy(a)', Len(intent)') = SumTo(IntentsWithdrawnBy(a), n)
        <3> DEFINE f == IntentsWithdrawnBy(a)
                   g == IntentsWithdrawnBy(a)'
        <3>1. f \in [1 .. n -> Int]
            BY RowTypes
        <3>2. /\ g \in [1 .. (n + 1) -> Int]
              /\ \A i \in 1 .. n : g[i] = f[i]
              /\ g[n + 1] = 0
            BY <1>1, <1>2 DEF IntentsWithdrawnBy
        <3> HIDE DEF f, g
        <3>3. SumTo(g, n + 1) = SumTo(f, n) + g[n + 1] /\ SumTo(f, n) \in Int
            BY <1>1, <3>1, <3>2, SumExtend, SumType
        <3>4. QED
            BY <1>2, <3>2, <3>3 DEF f, g
    <2>4. QED
        BY <2>1, <2>2, <2>3 DEF ReputationEarned
<1>7. QED
    BY <1>3, <1>4, <1>5, <1>6 DEF RecordsKept

\* The four counts of one agent, which ReputationEarned relates to the records.
EarnedExactly(a) ==
    /\ reputation[a].completed_trades = SumTo(TradesOf(a), Len(response))
    /\ reputation[a].total_volume = AtMost(MaxU64, SumTo(VolumesOf(a), Len(response)))
    /\ reputation[a].expired_intents = SumTo(IntentsWithdrawnBy(a), Len(intent))
    /\ reputation[a].cancelled_responses = SumTo(ResponsesWithdrawnBy(a), Len(response))

\* A new response.
LEMMA ResponseAdded ==
    ASSUME DInv, NEW new \in ResponseRecords, new.status = "Pending",
           new.intent_id \in DOMAIN intent, intent[new.intent_id].agent # new.agent,
           new.price \in intent[new.intent_id].min_price .. intent[new.intent_id].max_price,
           response' = Append(response, new), UNCHANGED intent,
           \A a \in Agents :
              /\ reputation'[a].completed_trades = reputation[a].completed_trades
              /\ reputation'[a].total_volume = reputation[a].total_volume
              /\ reputation'[a].expired_intents = reputation[a].expired_intents
              /\ reputation'[a].cancelled_responses = reputation[a].cancelled_responses
    PROVE  RecordsKept
<1>1. /\ response \in Seq(ResponseRecords) /\ DOMAIN response = 1 .. Len(response)
      /\ Len(response) \in Nat
      /\ \A r \in DOMAIN response : response[r].intent_id \in DOMAIN intent
    BY PoolFacts
<1> DEFINE n == Len(response)
<1>2. /\ response' \in Seq(ResponseRecords) /\ Len(response') = n + 1
      /\ DOMAIN response' = 1 .. n + 1
      /\ \A r \in 1 .. n : response'[r] = response[r]
      /\ response'[n + 1] = new
    BY <1>1, AppendProperties
<1>3. RecordsStay
    BY <1>1, <1>2, PoolFacts DEF RecordsStay, IntentRecords, ResponseRecords
<1>4. FilledOnce'
    <2>1. FilledOnce
        BY DEF DInv
    <2>2. \A i \in DOMAIN intent : intent[i].filled_response_id \in 0 .. n
        BY <2>1 DEF FilledOnce
    <2>3. \A i \in DOMAIN intent : intent'[i].filled_response_id \in 0 .. Len(response')
        BY <1>1, <1>2, <2>2
    <2>4. \A r \in DOMAIN response' : r \in 1 .. n \/ r = n + 1
        BY <1>1, <1>2
    <2>5. \A i \in DOMAIN intent : intent[i].filled_response_id # n + 1
        BY <1>1, <2>2
    <2>6. QED
        BY <1>1, <1>2, <2>1, <2>3, <2>4, <2>5 DEF FilledOnce
<1>5. Counterparties'
    <2>1. Counterparties
        BY DEF DInv
    <2>2. \A r \in DOMAIN response' : r \in 1 .. n \/ r = n + 1
        BY <1>1, <1>2
    <2>3. QED
        BY <1>1, <1>2, <2>1, <2>2 DEF Counterparties
<1>6. ASSUME NEW a \in Agents
      PROVE  EarnedExactly(a)'
    <2> DEFINE f1 == TradesOf(a)
               f2 == VolumesOf(a)
               f3 == ResponsesWithdrawnBy(a)
               g1 == TradesOf(a)'
               g2 == VolumesOf(a)'
               g3 == ResponsesWithdrawnBy(a)'
    <2>1. EarnedExactly(a)
        BY DEF DInv, ReputationEarned, EarnedExactly
    <2>2. IntentsWithdrawnBy(a)' = IntentsWithdrawnBy(a)
        BY DEF IntentsWithdrawnBy
    <2>3. /\ f1 \in [1 .. n -> Int] /\ f2 \in [1 .. n -> Int] /\ f3 \in [1 .. n -> Int]
        BY RowTypes
    <2>4. \A r \in 1 .. n : /\ SettledBy(a, r)' <=> SettledBy(a, r)
                            /\ TradeNotional(response[r].intent_id, r)'
                                  = TradeNotional(response[r].intent_id, r)
        BY <1>1, <1>2 DEF SettledBy, TradeNotional
    <2>5. \A r \in DOMAIN response' : r = n + 1 => ~ SettledBy(a, r)'
        BY <1>2 DEF SettledBy
    <2>6. /\ \A r \in 1 .. n : g1[r] = f1[r] /\ g2[r] = f2[r] /\ g3[r] = f3[r]
          /\ g1[n + 1] = 0 /\ g2[n + 1] = 0 /\ g3[n + 1] = 0
        <3>1. \A r \in 1 .. n : r \in DOMAIN response /\ r \in DOMAIN response'
            BY <1>1, <1>2
        <3>2. n + 1 \in DOMAIN response'
            BY <1>1, <1>2
        <3>3. \A r \in 1 .. n : g1[r] = f1[r]
            BY <2>4, <3>1 DEF TradesOf
        <3>4. \A r \in 1 .. n : g2[r] = f2[r]
            BY <2>4, <3>1 DEF VolumesOf
        <3>5. \A r \in 1 .. n : g3[r] = f3[r]
            BY <1>2, <3>1 DEF ResponsesWithdrawnBy
        <3>6. g1[n + 1] = 0 /\ g2[n + 1] = 0 /\ g3[n + 1] = 0
            BY <1>2, <2>5, <3>2 DEF TradesOf, VolumesOf, ResponsesWithdrawnBy
        <3>7. QED
            BY <3>3, <3>4, <3>5, <3>6
    <2>7. \A r \in 1 .. n + 1 : g1[r] \in Int /\ g2[r] \in Int /\ g3[r] \in Int
        <3>1. \A r \in 1 .. n + 1 : r \in 1 .. n \/ r = n + 1
            BY <1>1
        <3> HIDE DEF f1, f2, f3, g1, g2, g3
        <3>2. QED
            BY <2>3, <2>6, <3>1
    <2>8. /\ g1 = [r \in 1 .. n + 1 |-> g1[r]]
          /\ g2 = [r \in 1 .. n + 1 |-> g2[r]]
          /\ g3 = [r \in 1 .. n + 1 |-> g3[r]]
        BY <1>2 DEF TradesOf, VolumesOf, ResponsesWithdrawnBy
    <2> HIDE DEF f1, f2, f3, g1, g2, g3
    <2>9. g1 \in [1 .. n + 1 -> Int] /\ g2 \in [1 .. n + 1 -> Int] /\ g3 \in [1 .. n + 1 -> Int]
        BY <2>7, <2>8
    <2>10. /\ SumTo(g1, n + 1) = SumTo(f1, n) + 0
           /\ SumTo(g2, n + 1) = SumTo(f2, n) + 0
           /\ SumTo(g3, n + 1) = SumTo(f3, n) + 0
        <3>1. SumTo(g1, n + 1) = SumTo(f1, n) + g1[n + 1]
            BY <1>1, <2>3, <2>6, <2>9, SumExtend
        <3>2. SumTo(g2, n + 1) = SumTo(f2, n) + g2[n + 1]
            BY <1>1, <2>3, <2>6, <2>9, SumExtend
        <3>3. SumTo(g3, n + 1) = SumTo(f3, n) + g3[n + 1]
            BY <1>1, <2>3, <2>6, <2>9, SumExtend
        <3>4. QED
            BY <2>6, <3>1, <3>2, <3>3
    <2>11. SumTo(f1, n) \in Int /\ SumTo(f2, n) \in Int /\ SumTo(f3, n) \in Int
        BY <1>1, <2>3, SumType
    <2>12. /\ SumTo(g1, n + 1) = SumTo(f1, n) /\ SumTo(g2, n + 1) = SumTo(f2, n)
           /\ SumTo(g3, n + 1) = SumTo(f3, n)
        BY <2>10, <2>11
    <2>13. QED
        BY <1>2, <2>1, <2>2, <2>12 DEF EarnedExactly, f1, f2, f3, g1, g2, g3
<1>7. ReputationEarned'
    BY <1>6 DEF ReputationEarned, EarnedExactly
<1>8. QED
    BY <1>3, <1>4, <1>5, <1>7 DEF RecordsKept

\* An intent withdrawn by its agent.
LEMMA IntentCancelled ==
    ASSUME DInv, NEW agent \in Agents, NEW i \in DOMAIN intent, intent[i].agent = agent,
           intent[i].status = "Open",
           intent' = [intent EXCEPT ![i].status = "Cancelled"], UNCHANGED response,
           reputation' = [reputation EXCEPT ![agent].expired_intents = @ + 1]
    PROVE  RecordsKept /\ intent' \in Seq(IntentRecords)
<1>1. /\ intent \in Seq(IntentRecords) /\ DOMAIN intent = 1 .. Len(intent)
      /\ Len(intent) \in Nat
      /\ \A j \in DOMAIN intent : intent[j] \in IntentRecords
      /\ \A r \in DOMAIN response : response[r].intent_id \in DOMAIN intent
      /\ reputation \in [Agents -> Reputations(now)]
    BY PoolFacts
<1> DEFINE n == Len(intent)
           new == [intent[i] EXCEPT !.status = "Cancelled"]
<1>2. new \in IntentRecords /\ new.status = "Cancelled" /\ new.agent = agent
      /\ new.filled_response_id = intent[i].filled_response_id
      /\ new.size = intent[i].size
      /\ new.min_price = intent[i].min_price /\ new.max_price = intent[i].max_price
    BY <1>1 DEF IntentRecords
<1>3. intent' = [intent EXCEPT ![i] = new]
    OBVIOUS
<1> HIDE DEF new
<1>4. /\ intent' \in Seq(IntentRecords) /\ Len(intent') = n
      /\ DOMAIN intent' = DOMAIN intent
      /\ \A j \in DOMAIN intent : intent'[j] = IF j = i THEN new ELSE intent[j]
    BY <1>1, <1>2, <1>3, ExceptSeq
<1>5. RecordsStay
    <2>1. new = [intent[i] EXCEPT !.status = new.status,
                                  !.filled_response_id = new.filled_response_id]
        BY <1>1 DEF IntentRecords, new
    <2>2. \A j \in DOMAIN intent :
             j # i => intent[j] = [intent[j] EXCEPT !.status = intent[j].status,
                                     !.filled_response_id = intent[j].filled_response_id]
        BY <1>1 DEF IntentRecords
    <2>3. \A r \in DOMAIN response : response[r] = [response[r] EXCEPT !.status = response[r].status]
        BY PoolFacts DEF ResponseRecords
    <2>4. QED
        BY <1>4, <2>1, <2>2, <2>3 DEF RecordsStay
<1>6. FilledOnce'
    <2>1. FilledOnce
        BY DEF DInv
    <2>2. QED
        BY <1>1, <1>2, <1>4, <2>1 DEF FilledOnce
<1>7. Counterparties'
    <2>1. Counterparties
        BY DEF DInv
    <2>2. QED
        BY <1>1, <1>2, <1>4, <2>1 DEF Counterparties
<1>8. ASSUME NEW a \in Agents
      PROVE  EarnedExactly(a)'
    <2> DEFINE f == IntentsWithdrawnBy(a)
               g == IntentsWithdrawnBy(a)'
    <2>1. EarnedExactly(a)
        BY DEF DInv, ReputationEarned, EarnedExactly
    <2>2. /\ TradesOf(a)' = TradesOf(a) /\ VolumesOf(a)' = VolumesOf(a)
          /\ ResponsesWithdrawnBy(a)' = ResponsesWithdrawnBy(a)
        <3>1. \A r \in DOMAIN response :
                 /\ SettledBy(a, r)' <=> SettledBy(a, r)
                 /\ TradeNotional(response[r].intent_id, r)'
                       = TradeNotional(response[r].intent_id, r)
            BY <1>1, <1>2, <1>4 DEF SettledBy, TradeNotional
        <3>2. QED
            BY <3>1 DEF TradesOf, VolumesOf, ResponsesWithdrawnBy
    <2>3. /\ reputation'[a].completed_trades = reputation[a].completed_trades
          /\ reputation'[a].total_volume = reputation[a].total_volume
          /\ reputation'[a].cancelled_responses = reputation[a].cancelled_responses
          /\ reputation'[a].expired_intents
                = reputation[a].expired_intents + (IF a = agent THEN 1 ELSE 0)
        BY <1>1 DEF Reputations
    <2>4. f \in [1 .. n -> Int] /\ f[i] = 0
        BY RowTypes DEF IntentsWithdrawnBy
    <2>5. g = [f EXCEPT ![i] = IF a = agent THEN 1 ELSE 0]
        BY <1>1, <1>2, <1>4 DEF IntentsWithdrawnBy
    <2> HIDE DEF f, g
    <2> DEFINE one == IF a = agent THEN 1 ELSE 0
    <2>6. SumTo(g, n) = SumTo(f, n) - f[i] + one /\ SumTo(f, n) \in Int
        <3>1. one \in Int /\ g = [f EXCEPT ![i] = one]
            BY <2>5
        <3>2. n \in Nat /\ i \in 1 .. n
            BY <1>1
        <3> HIDE DEF one, n
        <3>3. SumTo([f EXCEPT ![i] = one], n) = SumTo(f, n) - f[i] + one
            BY <2>4, <3>1, <3>2, SumUpdate
        <3>4. QED
            BY <2>4, <3>1, <3>2, <3>3, SumType
    <2>7. SumTo(g, n) = SumTo(f, n) + (IF a = agent THEN 1 ELSE 0)
        BY <2>4, <2>6
    <2>8. QED
        BY <1>4, <2>1, <2>2, <2>3, <2>7 DEF EarnedExactly, f, g
<1>9. ReputationEarned'
    BY <1>8 DEF ReputationEarned, EarnedExactly
<1>10. QED
    BY <1>4, <1>5, <1>6, <1>7, <1>9 DEF RecordsKept

\* What one pending response adds to the counts of an agent when its status changes.
LEMMA ResponseDecided ==
    ASSUME DInv, RecordsStay, NEW r \in DOMAIN response, response[r].status = "Pending",
           NEW new \in ResponseRecords, response' = [response EXCEPT ![r] = new],
           NEW a \in Agents
    PROVE  LET parties == {response[r].agent, intent[response[r].intent_id].agent}
               settled == new.status = "Accepted" /\ a \in parties
           IN  /\ SumTo(TradesOf(a), Len(response))' =
                     SumTo(TradesOf(a), Len(response)) + (IF settled THEN 1 ELSE 0)
               /\ SumTo(VolumesOf(a), Len(response))' =
                     SumTo(VolumesOf(a), Len(response))
                        + (IF settled THEN TradeNotional(response[r].intent_id, r) ELSE 0)
               /\ SumTo(ResponsesWithdrawnBy(a), Len(response))' =
                     SumTo(ResponsesWithdrawnBy(a), Len(response))
                        + (IF new.status = "Cancelled" /\ response[r].agent = a THEN 1 ELSE 0)
<1> DEFINE n == Len(response)
           parties == {response[r].agent, intent[response[r].intent_id].agent}
           settled == new.status = "Accepted" /\ a \in parties
           f1 == TradesOf(a)
           f2 == VolumesOf(a)
           f3 == ResponsesWithdrawnBy(a)
           g1 == TradesOf(a)'
           g2 == VolumesOf(a)'
           g3 == ResponsesWithdrawnBy(a)'
           v1 == IF settled THEN 1 ELSE 0
           v2 == IF settled THEN TradeNotional(response[r].intent_id, r) ELSE 0
           v3 == IF new.status = "Cancelled" /\ response[r].agent = a THEN 1 ELSE 0
<1>1. /\ response \in Seq(ResponseRecords) /\ DOMAIN response = 1 .. n /\ n \in Nat
      /\ response[r].intent_id \in DOMAIN intent
    BY PoolFacts
<1>2. /\ Len(response') = n /\ DOMAIN response' = DOMAIN response
      /\ \A s \in DOMAIN response : response'[s] = IF s = r THEN new ELSE response[s]
    BY <1>1, ExceptSeq
<1>3. \A s \in DOMAIN response :
         /\ response'[s].agent = response[s].agent
         /\ TradeNotional(response[s].intent_id, s)' = TradeNotional(response[s].intent_id, s)
         /\ SettledBy(a, s)' <=> /\ response'[s].status = "Accepted"
                                 /\ a \in {response[s].agent, intent[response[s].intent_id].agent}
    BY PartiesStay
<1>4. \A s \in DOMAIN response : s # r => (SettledBy(a, s)' <=> SettledBy(a, s))
    BY <1>2, <1>3 DEF SettledBy
<1>5. SettledBy(a, r)' <=> settled
    BY <1>2, <1>3
<1>6. f1[r] = 0 /\ f2[r] = 0 /\ f3[r] = 0
    BY DEF TradesOf, VolumesOf, ResponsesWithdrawnBy, SettledBy
<1>7. g1 = [f1 EXCEPT ![r] = v1]
    BY <1>2, <1>4, <1>5 DEF TradesOf
<1>8. g2 = [f2 EXCEPT ![r] = v2]
    BY <1>2, <1>3, <1>4, <1>5 DEF VolumesOf
<1>9. g3 = [f3 EXCEPT ![r] = v3]
    BY <1>2, <1>3 DEF ResponsesWithdrawnBy
<1>10. v1 \in Int /\ v2 \in Int /\ v3 \in Int
    <2>1. TradeNotional(response[r].intent_id, r) \in Nat
        <3>1. intent[response[r].intent_id].size \in Nat /\ response[r].price \in Nat
            BY <1>1, PartyFacts, LedgerAssumption DEF U64
        <3>2. QED
            BY <3>1, NotionalType DEF TradeNotional
    <2>2. QED
        BY <2>1
<1>11. f1 \in [1 .. n -> Int] /\ f2 \in [1 .. n -> Int] /\ f3 \in [1 .. n -> Int]
    BY RowTypes
<1> HIDE DEF f1, f2, f3, g1, g2, g3, v1, v2, v3, settled, parties
<1>12. r \in 1 .. n
    BY <1>1
<1>13. Len(response') = n
    BY <1>2
<1> HIDE DEF n
<1>14. SumTo(g1, n) = SumTo(f1, n) - f1[r] + v1 /\ SumTo(f1, n) \in Int
    BY <1>1, <1>7, <1>10, <1>11, <1>12, SumUpdate, SumType
<1>15. SumTo(g2, n) = SumTo(f2, n) - f2[r] + v2 /\ SumTo(f2, n) \in Int
    BY <1>1, <1>8, <1>10, <1>11, <1>12, SumUpdate, SumType
<1>16. SumTo(g3, n) = SumTo(f3, n) - f3[r] + v3 /\ SumTo(f3, n) \in Int
    BY <1>1, <1>9, <1>10, <1>11, <1>12, SumUpdate, SumType
<1>17. /\ SumTo(g1, n) = SumTo(f1, n) + v1
       /\ SumTo(g2, n) = SumTo(f2, n) + v2
       /\ SumTo(g3, n) = SumTo(f3, n) + v3
    BY <1>6, <1>10, <1>14, <1>15, <1>16
<1>18. QED
    BY <1>13, <1>17 DEF n, f1, f2, f3, g1, g2, g3, v1, v2, v3, settled, parties

\* A response withdrawn by its agent.
LEMMA ResponseCancelled ==
    ASSUME DInv, NEW agent \in Agents, NEW r \in DOMAIN response, response[r].agent = agent,
           response[r].status = "Pending",
           response' = [response EXCEPT ![r].status = "Cancelled"], UNCHANGED intent,
           reputation' = [reputation EXCEPT ![agent].cancelled_responses = @ + 1]
    PROVE  RecordsKept /\ response' \in Seq(ResponseRecords)
<1> DEFINE new == [response[r] EXCEPT !.status = "Cancelled"]
<1>1. /\ response \in Seq(ResponseRecords) /\ DOMAIN response = 1 .. Len(response)
      /\ Len(response) \in Nat
      /\ \A s \in DOMAIN response : response[s] \in ResponseRecords
      /\ reputation \in [Agents -> Reputations(now)]
    BY PoolFacts
<1>2. /\ new \in ResponseRecords /\ new.status = "Cancelled" /\ new.agent = agent
      /\ new.intent_id = response[r].intent_id /\ new.price = response[r].price
      /\ new = [response[r] EXCEPT !.status = new.status]
    BY <1>1 DEF ResponseRecords
<1>3. response' = [response EXCEPT ![r] = new]
    OBVIOUS
<1> HIDE DEF new
<1>4. /\ response' \in Seq(ResponseRecords) /\ Len(response') = Len(response)
      /\ DOMAIN response' = DOMAIN response
      /\ \A s \in DOMAIN response : response'[s] = IF s = r THEN new ELSE response[s]
    BY <1>1, <1>2, <1>3, ExceptSeq
<1>5. RecordsStay
    <2>1. \A s \in DOMAIN response : response[s] = [response[s] EXCEPT !.status = response[s].status]
        BY <1>1 DEF ResponseRecords
    <2>2. \A i \in DOMAIN intent :
             intent[i] = [intent[i] EXCEPT !.status = intent[i].status,
                                     !.filled_response_id = intent[i].filled_response_id]
        BY PoolFacts DEF IntentRecords
    <2>3. QED
        BY <1>2, <1>4, <2>1, <2>2, ZenonT(60) DEF RecordsStay
<1>6. FilledOnce'
    <2>1. FilledOnce
        BY DEF DInv
    <2>2. QED
        BY <1>2, <1>4, <2>1 DEF FilledOnce
<1>7. Counterparties'
    <2>1. Counterparties
        BY DEF DInv
    <2>2. QED
        BY <1>2, <1>4, <2>1 DEF Counterparties
<1>8. ASSUME NEW a \in Agents
      PROVE  EarnedExactly(a)'
    <2>1. EarnedExactly(a)
        BY DEF DInv, ReputationEarned, EarnedExactly
    <2>2. IntentsWithdrawnBy(a)' = IntentsWithdrawnBy(a)
        BY DEF IntentsWithdrawnBy
    <2>3. /\ reputation'[a].completed_trades = reputation[a].completed_trades
          /\ reputation'[a].total_volume = reputation[a].total_volume
          /\ reputation'[a].expired_intents = reputation[a].expired_intents
          /\ reputation'[a].cancelled_responses
                = reputation[a].cancelled_responses + (IF agent = a THEN 1 ELSE 0)
        BY <1>1 DEF Reputations
    <2>4. /\ SumTo(TradesOf(a), Len(response))' = SumTo(TradesOf(a), Len(response)) + 0
          /\ SumTo(VolumesOf(a), Len(response))' = SumTo(VolumesOf(a), Len(response)) + 0
          /\ SumTo(ResponsesWithdrawnBy(a), Len(response))'
                = SumTo(ResponsesWithdrawnBy(a), Len(response)) + (IF agent = a THEN 1 ELSE 0)
        <3> DEFINE settled == new.status = "Accepted"
                                 /\ a \in {response[r].agent, intent[response[r].intent_id].agent}
        <3>1. /\ SumTo(TradesOf(a), Len(response))' =
                     SumTo(TradesOf(a), Len(response)) + (IF settled THEN 1 ELSE 0)
              /\ SumTo(VolumesOf(a), Len(response))' =
                     SumTo(VolumesOf(a), Len(response))
                        + (IF settled THEN TradeNotional(response[r].intent_id, r) ELSE 0)
              /\ SumTo(ResponsesWithdrawnBy(a), Len(response))' =
                     SumTo(ResponsesWithdrawnBy(a), Len(response))
                        + (IF new.status = "Cancelled" /\ response[r].agent = a THEN 1 ELSE 0)
            <4>1. new \in ResponseRecords
                BY <1>2
            <4>2. QED
                BY <1>3, <1>5, <4>1, ResponseDecided, Zenon
        <3>2. ~ settled
            BY <1>2
        <3>3. QED
            BY <1>2, <3>1, <3>2
    <2>5. SumTo(TradesOf(a), Len(response)) \in Int /\ SumTo(VolumesOf(a), Len(response)) \in Int
        BY <1>1, RowTypes, SumType
    <2>6. QED
        BY <2>1, <2>2, <2>3, <2>4, <2>5 DEF EarnedExactly
<1>9. ReputationEarned'
    BY <1>8 DEF ReputationEarned, EarnedExactly
<1>10. QED
    BY <1>4, <1>5, <1>6, <1>7, <1>9 DEF RecordsKept

LEMMA Saturation ==
    ASSUME NEW x \in Nat, NEW v \in Nat
    PROVE  SatAdd(AtMost(MaxU64, x), v) = AtMost(MaxU64, x + v)
BY LedgerAssumption DEF SatAdd, AtMost

\* A settlement writes the intent, the response and both reputations.
LEMMA DealRecorded ==
    ASSUME DInv, NEW agent, NEW i \in DOMAIN intent, NEW r \in DOMAIN response,
           AcceptAndSettle(agent, i, r)
    PROVE  /\ RecordsKept
           /\ intent' \in Seq(IntentRecords) /\ response' \in Seq(ResponseRecords)
           /\ reputation' \in [Agents -> Reputations(now)]
           /\ intent[i].status = "Open" /\ response[r].status = "Pending"
           /\ response[r].intent_id = i /\ response'[r].status = "Accepted"
           /\ now <= intent[i].expires_at /\ now <= response[r].expires_at
           /\ TradeNotional(i, r) \in Nat
<1> DEFINE newi == [intent[i] EXCEPT !.status = "Filled", !.filled_response_id = r]
           newr == [response[r] EXCEPT !.status = "Accepted"]
           v == TradeNotional(i, r)
           parties == {intent[i].agent, response[r].agent}
<1>1. /\ intent[i].status = "Open" /\ response[r].status = "Pending"
      /\ response[r].intent_id = i
      /\ now <= intent[i].expires_at /\ now <= response[r].expires_at
      /\ intent' = [intent EXCEPT ![i].status = "Filled", ![i].filled_response_id = r]
      /\ response' = [response EXCEPT ![r].status = "Accepted"]
      /\ reputation' = Earned(i, r)
    BY DEF AcceptAndSettle, Standing, Filled
<1>2. /\ intent \in Seq(IntentRecords) /\ DOMAIN intent = 1 .. Len(intent) /\ Len(intent) \in Nat
      /\ response \in Seq(ResponseRecords) /\ DOMAIN response = 1 .. Len(response)
      /\ Len(response) \in Nat
      /\ \A j \in DOMAIN intent : intent[j] \in IntentRecords
      /\ \A s \in DOMAIN response : response[s] \in ResponseRecords
      /\ reputation \in [Agents -> Reputations(now)]
    BY PoolFacts
<1>3. r \in Nat \ {0}
    BY <1>2
<1>4. /\ newi \in IntentRecords /\ newi.status = "Filled" /\ newi.filled_response_id = r
      /\ newi.agent = intent[i].agent /\ newi.size = intent[i].size
      /\ newi.min_price = intent[i].min_price /\ newi.max_price = intent[i].max_price
      /\ newi = [intent[i] EXCEPT !.status = newi.status,
                                  !.filled_response_id = newi.filled_response_id]
    BY <1>2, <1>3 DEF IntentRecords
<1>5. /\ newr \in ResponseRecords /\ newr.status = "Accepted"
      /\ newr.agent = response[r].agent /\ newr.intent_id = i /\ newr.price = response[r].price
      /\ newr = [response[r] EXCEPT !.status = newr.status]
    BY <1>1, <1>2 DEF ResponseRecords
<1>6. intent' = [intent EXCEPT ![i] = newi] /\ response' = [response EXCEPT ![r] = newr]
    BY <1>1
<1> HIDE DEF newi, newr
<1>7. /\ intent' \in Seq(IntentRecords) /\ Len(intent') = Len(intent)
      /\ DOMAIN intent' = DOMAIN intent
      /\ \A j \in DOMAIN intent : intent'[j] = IF j = i THEN newi ELSE intent[j]
    BY <1>2, <1>4, <1>6, ExceptSeq
<1>8. /\ response' \in Seq(ResponseRecords) /\ Len(response') = Len(response)
      /\ DOMAIN response' = DOMAIN response
      /\ \A s \in DOMAIN response : response'[s] = IF s = r THEN newr ELSE response[s]
    BY <1>2, <1>5, <1>6, ExceptSeq
<1>9. RecordsStay
    <2>1. \A s \in DOMAIN response : response[s] = [response[s] EXCEPT !.status = response[s].status]
        BY <1>2 DEF ResponseRecords
    <2>2. \A j \in DOMAIN intent :
             intent[j] = [intent[j] EXCEPT !.status = intent[j].status,
                                     !.filled_response_id = intent[j].filled_response_id]
        BY <1>2 DEF IntentRecords
    <2>3. QED
        BY <1>1, <1>4, <1>5, <1>7, <1>8, <2>1, <2>2 DEF RecordsStay
<1>10. FilledOnce'
    <2>1. FilledOnce
        BY DEF DInv
    <2>2. intent[i].filled_response_id = 0
        BY <1>1, <1>2, <2>1 DEF FilledOnce, IntentRecords
    <2>3. \A j \in DOMAIN intent : intent[j].filled_response_id # r
        BY <1>1, <2>1 DEF FilledOnce
    <2>4. \A s \in DOMAIN response' : response'[s].intent_id \in DOMAIN intent'
        BY <1>5, <1>7, <1>8, <2>1 DEF FilledOnce
    <2>5. \A j \in DOMAIN intent' : intent'[j].filled_response_id \in 0 .. Len(response')
        <3>1. \A j \in DOMAIN intent : intent[j].filled_response_id \in 0 .. Len(response)
            BY <2>1 DEF FilledOnce
        <3>2. newi.filled_response_id \in 0 .. Len(response)
            BY <1>2, <1>4
        <3>3. QED
            BY <1>7, <1>8, <3>1, <3>2
    <2>6. \A j \in DOMAIN intent' :
             intent'[j].status = "Filled" <=> intent'[j].filled_response_id # 0
        <3>1. newi.status = "Filled" <=> newi.filled_response_id # 0
            BY <1>3, <1>4
        <3>2. \A j \in DOMAIN intent :
                 intent[j].status = "Filled" <=> intent[j].filled_response_id # 0
            BY <2>1 DEF FilledOnce
        <3>3. QED
            BY <1>7, <3>1, <3>2
    <2>7. ASSUME NEW s \in DOMAIN response'
          PROVE  response'[s].status = "Accepted"
                    <=> \E j \in DOMAIN intent' : intent'[j].filled_response_id = s
        <3>1. CASE s = r
            BY <1>4, <1>5, <1>7, <1>8, <3>1
        <3>2. CASE s # r
            <4>1. s # 0
                BY <1>2, <1>8
            <4>2. response[s].status = "Accepted"
                    <=> \E j \in DOMAIN intent : intent[j].filled_response_id = s
                BY <1>8, <2>1 DEF FilledOnce
            <4>3. (\E j \in DOMAIN intent' : intent'[j].filled_response_id = s)
                    <=> \E j \in DOMAIN intent : intent[j].filled_response_id = s
                BY <1>4, <1>7, <2>2, <3>2, <4>1
            <4>4. response'[s] = response[s]
                BY <1>8, <3>2
            <4>5. QED
                BY <4>2, <4>3, <4>4
        <3>3. QED
            BY <3>1, <3>2
    <2>8. ASSUME NEW s \in DOMAIN response', NEW j \in DOMAIN intent',
                 intent'[j].filled_response_id = s
          PROVE  response'[s].intent_id = j
        <3>1. CASE j = i
            BY <1>4, <1>5, <1>7, <1>8, <2>8, <3>1
        <3>2. CASE j # i
            <4>1. intent[j].filled_response_id = s
                BY <1>7, <2>8, <3>2
            <4>2. s # r /\ response[s].intent_id = j
                BY <1>7, <1>8, <2>1, <2>3, <4>1 DEF FilledOnce
            <4>3. QED
                BY <1>8, <4>2
        <3>3. QED
            BY <3>1, <3>2
    <2>9. QED
        BY <2>4, <2>5, <2>6, <2>7, <2>8 DEF FilledOnce
<1>11. Counterparties'
    <2>1. Counterparties
        BY DEF DInv
    <2>2. \A s \in DOMAIN response : response[s].intent_id \in DOMAIN intent
        BY PoolFacts
    <2>3. ASSUME NEW s \in DOMAIN response
          PROVE  LET j == response'[s].intent_id
                 IN  /\ intent'[j].agent # response'[s].agent
                     /\ response'[s].price \in intent'[j].min_price .. intent'[j].max_price
        <3> DEFINE j == response[s].intent_id
        <3>1. /\ response'[s].intent_id = j /\ response'[s].agent = response[s].agent
              /\ response'[s].price = response[s].price
            BY <1>1, <1>5, <1>8
        <3>2. /\ intent'[j].agent = intent[j].agent
              /\ intent'[j].min_price = intent[j].min_price
              /\ intent'[j].max_price = intent[j].max_price
            BY <1>4, <1>7, <2>2
        <3>3. QED
            BY <2>1, <3>1, <3>2 DEF Counterparties
    <2>4. QED
        BY <1>8, <2>3 DEF Counterparties
<1>12. v \in Nat
    <2>1. intent[i].size \in Nat /\ response[r].price \in Nat
        BY <1>1, PartyFacts, LedgerAssumption DEF U64
    <2>2. QED
        BY <2>1, NotionalType DEF TradeNotional
<1>13. \A a \in Agents :
          reputation'[a] = IF a \in parties
                           THEN [reputation[a] EXCEPT !.completed_trades = @ + 1,
                                                      !.total_volume = SatAdd(@, v)]
                           ELSE reputation[a]
    BY <1>1 DEF Earned
<1> HIDE DEF v
<1>14. reputation' \in [Agents -> Reputations(now)]
    <2>1. ASSUME NEW x \in Nat PROVE SatAdd(x, v) \in U64
        BY <1>12, LedgerAssumption DEF SatAdd, AtMost, U64
    <2>2. U64 \subseteq Nat
        BY LedgerAssumption DEF U64
    <2>3. ASSUME NEW a \in Agents PROVE reputation'[a] \in Reputations(now)
        <3>1. reputation[a] \in Reputations(now)
            BY <1>2
        <3>2. SatAdd(reputation[a].total_volume, v) \in U64
            BY <2>1, <2>2, <3>1 DEF Reputations
        <3> DEFINE u == SatAdd(reputation[a].total_volume, v)
        <3>3. reputation'[a] = IF a \in parties
                               THEN [reputation[a] EXCEPT !.completed_trades = @ + 1,
                                                          !.total_volume = u]
                               ELSE reputation[a]
            BY <1>13
        <3> HIDE DEF u, parties
        <3>4. u \in U64
            BY <3>2 DEF u
        <3> DEFINE c == reputation[a].completed_trades + 1
                   w == [reputation[a] EXCEPT !.completed_trades = c, !.total_volume = u]
        <3>5. w \in Reputations(now)
            <4>1. c \in Nat
                BY <3>1 DEF Reputations
            <4> HIDE DEF c
            <4>2. QED
                BY <3>1, <3>4, <4>1 DEF Reputations
        <3>6. reputation'[a] = w \/ reputation'[a] = reputation[a]
            BY <3>3
        <3>7. QED
            BY <3>1, <3>5, <3>6
    <2>4. reputation' = [a \in Agents |-> reputation'[a]]
        BY <1>1 DEF Earned
    <2>5. QED
        BY <2>3, <2>4
<1>15. ASSUME NEW a \in Agents
       PROVE  EarnedExactly(a)'
    <2> DEFINE settled == newr.status = "Accepted"
                             /\ a \in {response[r].agent, intent[response[r].intent_id].agent}
               one == IF settled THEN 1 ELSE 0
               vol == IF settled THEN TradeNotional(response[r].intent_id, r) ELSE 0
               none == IF newr.status = "Cancelled" /\ response[r].agent = a THEN 1 ELSE 0
    <2>1. EarnedExactly(a)
        BY DEF DInv, ReputationEarned, EarnedExactly
    <2>2. /\ SumTo(TradesOf(a), Len(response))' = SumTo(TradesOf(a), Len(response)) + one
          /\ SumTo(VolumesOf(a), Len(response))' = SumTo(VolumesOf(a), Len(response)) + vol
          /\ SumTo(ResponsesWithdrawnBy(a), Len(response))' =
                     SumTo(ResponsesWithdrawnBy(a), Len(response)) + none
        <3>1. newr \in ResponseRecords
            BY <1>5
        <3>2. response[r].status = "Pending" /\ response' = [response EXCEPT ![r] = newr]
            BY <1>1, <1>6
        <3>3. QED
            BY <1>9, <3>1, <3>2, ResponseDecided, ZenonT(60)
    <2>3. /\ one = (IF a \in parties THEN 1 ELSE 0)
          /\ vol = (IF a \in parties THEN v ELSE 0)
          /\ none = 0
        BY <1>1, <1>5 DEF v
    <2>4. IntentsWithdrawnBy(a)' = IntentsWithdrawnBy(a)
        BY <1>1, <1>4, <1>7 DEF IntentsWithdrawnBy
    <2>5. /\ SumTo(TradesOf(a), Len(response)) \in Int
          /\ SumTo(ResponsesWithdrawnBy(a), Len(response)) \in Int
          /\ SumTo(VolumesOf(a), Len(response)) \in Nat
        BY <1>2, RowTypes, SumType, SumBound
    <2>6. /\ reputation'[a].expired_intents = reputation[a].expired_intents
          /\ reputation'[a].cancelled_responses = reputation[a].cancelled_responses
          /\ reputation'[a].completed_trades
                = reputation[a].completed_trades + (IF a \in parties THEN 1 ELSE 0)
          /\ reputation'[a].total_volume = IF a \in parties THEN SatAdd(reputation[a].total_volume, v)
                                                            ELSE reputation[a].total_volume
        <3>1. reputation[a] \in Reputations(now)
            BY <1>2
        <3> DEFINE u == SatAdd(reputation[a].total_volume, v)
        <3>2. reputation'[a] = IF a \in parties
                               THEN [reputation[a] EXCEPT !.completed_trades = @ + 1,
                                                          !.total_volume = u]
                               ELSE reputation[a]
            BY <1>13
        <3> HIDE DEF u, parties, one, vol, none
        <3>3. /\ reputation'[a].expired_intents = reputation[a].expired_intents
              /\ reputation'[a].cancelled_responses = reputation[a].cancelled_responses
              /\ reputation'[a].completed_trades
                    = reputation[a].completed_trades + (IF a \in parties THEN 1 ELSE 0)
              /\ reputation'[a].total_volume = IF a \in parties THEN u
                                                            ELSE reputation[a].total_volume
            BY <3>1, <3>2 DEF Reputations
        <3>4. QED
            BY <3>3 DEF u
    <2> HIDE DEF one, vol, none, settled, parties
    <2>7. SatAdd(reputation[a].total_volume, v)
             = AtMost(MaxU64, SumTo(VolumesOf(a), Len(response)) + v)
        BY <1>12, <2>1, <2>5, Saturation DEF EarnedExactly
    <2>8. reputation'[a].completed_trades = SumTo(TradesOf(a), Len(response))'
        BY <2>1, <2>2, <2>3, <2>6 DEF EarnedExactly
    <2>9. reputation'[a].total_volume = AtMost(MaxU64, SumTo(VolumesOf(a), Len(response))')
        <3>1. CASE a \in parties
            BY <2>2, <2>3, <2>6, <2>7, <3>1
        <3>2. CASE a \notin parties
            <4>1. SumTo(VolumesOf(a), Len(response))' = SumTo(VolumesOf(a), Len(response))
                BY <2>2, <2>3, <2>5, <3>2
            <4>2. QED
                BY <2>1, <2>6, <3>2, <4>1 DEF EarnedExactly
        <3>3. QED
            BY <3>1, <3>2
    <2>10. /\ reputation'[a].expired_intents = SumTo(IntentsWithdrawnBy(a), Len(intent))'
           /\ reputation'[a].cancelled_responses = SumTo(ResponsesWithdrawnBy(a), Len(response))'
        BY <1>7, <2>1, <2>2, <2>3, <2>4, <2>5, <2>6 DEF EarnedExactly
    <2>11. QED
        BY <2>8, <2>9, <2>10 DEF EarnedExactly
<1>16. ReputationEarned'
    BY <1>15 DEF ReputationEarned, EarnedExactly
<1>17. response'[r].status = "Accepted"
    BY <1>5, <1>8
<1>18. QED
    BY <1>1, <1>7, <1>8, <1>9, <1>10, <1>11, <1>12, <1>14, <1>16, <1>17 DEF RecordsKept, v

--------------------------------------------------------------------------------
(* The inductive invariant of the pool *)

LEMMA DarkParts ==
    ASSUME DInv
    PROVE  /\ IInv /\ venue_authorized \in BOOLEAN /\ config \in DarkConfig
           /\ max_settlement_price_age \in Budgets \cup {0}
           /\ intent \in Seq(IntentRecords) /\ response \in Seq(ResponseRecords)
           /\ reputation \in [Agents -> Reputations(now)]
           /\ priced_at \in [Markets -> 0 .. now]
           /\ now \in Now /\ now \in Nat \ {0} /\ changes \in 0 .. MaxChanges
           /\ MaxChanges \in Nat /\ LastTime \in Nat
BY VenueAssumption DEF DInv, DarkTypeOK, DarkConfig, Reputations, Now

LEMMA DarkWhole ==
    ASSUME IInv', RecordsKept, venue_authorized' \in BOOLEAN, config' \in DarkConfig,
           max_settlement_price_age' \in Budgets \cup {0},
           intent' \in Seq(IntentRecords), response' \in Seq(ResponseRecords),
           reputation' \in [Agents -> Reputations(now')],
           priced_at' \in [Markets -> 0 .. now'],
           now' \in Now, changes' \in 0 .. MaxChanges
    PROVE  DInv'
<1>1. TypeOK'
    BY DEF IInv
<1>2. DarkTypeOK'
    BY <1>1 DEF DarkTypeOK, DarkConfig, Reputations
<1>3. QED
    BY <1>2 DEF DInv, RecordsKept

LEMMA RecordsAlone ==
    ASSUME DInv, UNCHANGED <<intent, response, reputation>>
    PROVE  RecordsKept
<1>1. FilledOnce' /\ Counterparties'
    BY DEF DInv, FilledOnce, Counterparties
<1>2. ASSUME NEW a \in Agents
      PROVE  EarnedExactly(a)'
    <2>1. EarnedExactly(a)
        BY DEF DInv, ReputationEarned, EarnedExactly
    <2>2. /\ TradesOf(a)' = TradesOf(a) /\ VolumesOf(a)' = VolumesOf(a)
          /\ IntentsWithdrawnBy(a)' = IntentsWithdrawnBy(a)
          /\ ResponsesWithdrawnBy(a)' = ResponsesWithdrawnBy(a)
        BY DEF TradesOf, VolumesOf, IntentsWithdrawnBy, ResponsesWithdrawnBy,
               SettledBy, TradeNotional
    <2>3. QED
        BY <2>1, <2>2 DEF EarnedExactly
<1>3. RecordsStay
    BY PoolFacts DEF RecordsStay, IntentRecords, ResponseRecords
<1>4. QED
    BY <1>1, <1>2, <1>3 DEF RecordsKept, ReputationEarned, EarnedExactly

\* One more count, or a later response, keeps a reputation typed.
LEMMA ReputationTypes ==
    ASSUME DInv, NEW a \in Agents
    PROVE  /\ [reputation EXCEPT ![a].expired_intents = @ + 1] \in [Agents -> Reputations(now)]
           /\ [reputation EXCEPT ![a].cancelled_responses = @ + 1] \in [Agents -> Reputations(now)]
           /\ [reputation EXCEPT ![a].last_response_time = now] \in [Agents -> Reputations(now)]
<1> DEFINE rep == reputation[a]
           x == rep.expired_intents + 1
           y == rep.cancelled_responses + 1
<1>1. reputation \in [Agents -> Reputations(now)] /\ now \in Nat
    BY DarkParts
<1>2. rep \in Reputations(now)
    BY <1>1
<1>3. x \in Nat /\ y \in Nat /\ now \in 0 .. now
    BY <1>1, <1>2 DEF Reputations
<1> HIDE DEF rep, x, y
<1>4. /\ [rep EXCEPT !.expired_intents = x] \in Reputations(now)
      /\ [rep EXCEPT !.cancelled_responses = y] \in Reputations(now)
      /\ [rep EXCEPT !.last_response_time = now] \in Reputations(now)
    BY <1>2, <1>3 DEF Reputations
<1>5. /\ [reputation EXCEPT ![a] = [rep EXCEPT !.expired_intents = x]] \in [Agents -> Reputations(now)]
      /\ [reputation EXCEPT ![a] = [rep EXCEPT !.cancelled_responses = y]] \in [Agents -> Reputations(now)]
      /\ [reputation EXCEPT ![a] = [rep EXCEPT !.last_response_time = now]] \in [Agents -> Reputations(now)]
    BY <1>1, <1>4
<1>6. QED
    BY <1>5 DEF rep, x, y

\* What a step of the pool keeps, and that only a settlement settles.
Kept ==
    /\ DInv' /\ RecordsStay
    /\ Agreed => \E agent \in Agents, i \in DOMAIN intent, r \in DOMAIN response :
                  AcceptAndSettle(agent, i, r)

LEMMA PostIntentKeeps ==
    ASSUME DInv, NEW agent \in Agents, NEW terms \in Asks, PostIntent(agent, terms), UNCHANGED changes
    PROVE  Kept
<1> DEFINE new == [agent |-> agent, market_id |-> terms.market_id, is_buy |-> terms.is_buy,
                   size |-> terms.size, min_price |-> terms.min_price, max_price |-> terms.max_price,
                   expires_at |-> now + terms.duration, status |-> "Open", filled_response_id |-> 0,
                   fee_bps_at_post |-> config.fee_bps]
<1>1. /\ terms.size > 0 /\ terms.duration \in MIN_INTENT_DURATION .. MAX_INTENT_DURATION
      /\ intent' = Append(intent, new)
      /\ UNCHANGED <<vars, venue_authorized, config, max_settlement_price_age, response,
                     reputation, priced_at, now>>
    BY DEF PostIntent
<1>2. new \in IntentRecords /\ new.status = "Open" /\ new.filled_response_id = 0
    <2>1. /\ terms.market_id \in Markets /\ terms.is_buy \in BOOLEAN /\ terms.size \in U64
          /\ terms.min_price \in U64 /\ terms.max_price \in U64 /\ terms.duration \in Nat
        BY DEF Asks
    <2>2. terms.size \in U64 \ {0} /\ now + terms.duration \in Nat
        BY <1>1, <2>1, DarkParts
    <2>3. config.fee_bps \in Fees
        BY DarkParts DEF DarkConfig
    <2>4. QED
        BY <2>1, <2>2, <2>3 DEF IntentRecords
<1> HIDE DEF new
<1>3. RecordsKept
    BY <1>1, <1>2, IntentAdded
<1>4. intent' \in Seq(IntentRecords)
    BY <1>1, <1>2, DarkParts, AppendProperties
<1>5. IInv'
    BY <1>1, DarkParts, NextIInv
<1>6. DInv'
    BY <1>1, <1>3, <1>4, <1>5, DarkParts, DarkWhole
<1>7. ~ Agreed
    BY <1>1 DEF Agreed
<1>8. QED
    BY <1>3, <1>6, <1>7 DEF Kept, RecordsKept

LEMMA PostResponseKeeps ==
    ASSUME DInv, NEW responder \in Agents, NEW i \in DOMAIN intent, NEW price \in Prices,
           NEW duration \in Durations, PostResponse(responder, i, price, duration), UNCHANGED changes
    PROVE  Kept
<1> DEFINE new == [intent_id |-> i, agent |-> responder, price |-> price,
                   expires_at |-> now + duration, status |-> "Pending"]
<1>1. /\ intent[i].agent # responder
      /\ price \in intent[i].min_price .. intent[i].max_price
      /\ reputation' = [reputation EXCEPT ![responder].last_response_time = now]
      /\ response' = Append(response, new)
      /\ UNCHANGED <<vars, venue_authorized, config, max_settlement_price_age, intent,
                     priced_at, now>>
    BY DEF PostResponse
<1>2. /\ new \in ResponseRecords /\ new.status = "Pending"
      /\ new.intent_id = i /\ new.agent = responder /\ new.price = price
    <2>1. i \in Nat \ {0} /\ price \in U64 /\ now + duration \in Nat
        <3>1. i \in Nat \ {0} /\ now \in Nat
            BY PoolFacts
        <3>2. price \in U64
            BY EngineAssumption
        <3>3. duration \in Nat
            BY DarkPoolAssumption
        <3>4. QED
            BY <3>1, <3>2, <3>3
    <2>2. QED
        BY <2>1 DEF ResponseRecords
<1> HIDE DEF new
<1>3. reputation \in [Agents -> Reputations(now)] /\ now \in Nat
    BY DarkParts
<1>4. /\ reputation' \in [Agents -> Reputations(now)]
      /\ \A a \in Agents :
              /\ reputation'[a].completed_trades = reputation[a].completed_trades
              /\ reputation'[a].total_volume = reputation[a].total_volume
              /\ reputation'[a].expired_intents = reputation[a].expired_intents
              /\ reputation'[a].cancelled_responses = reputation[a].cancelled_responses
    <2>1. reputation' \in [Agents -> Reputations(now)]
        BY <1>1, ReputationTypes
    <2>2. \A a \in Agents : reputation[a] \in Reputations(now)
        BY <1>3
    <2>3. \A a \in Agents :
             reputation'[a] = IF a = responder THEN [reputation[a] EXCEPT !.last_response_time = now]
                                               ELSE reputation[a]
        BY <1>1, <1>3
    <2>4. QED
        BY <2>1, <2>2, <2>3 DEF Reputations
<1>5. RecordsKept
    <2>1. UNCHANGED intent
        BY <1>1
    <2>2. /\ new.intent_id \in DOMAIN intent /\ intent[new.intent_id].agent # new.agent
          /\ new.price \in intent[new.intent_id].min_price .. intent[new.intent_id].max_price
        BY <1>1, <1>2
    <2>3. QED
        BY <1>1, <1>2, <1>4, <2>1, <2>2, ResponseAdded
<1>6. /\ response' \in Seq(ResponseRecords)
      /\ \A r \in DOMAIN response : response'[r] = response[r]
    BY <1>1, <1>2, PoolFacts, AppendProperties
<1>7. IInv'
    BY <1>1, DarkParts, NextIInv
<1>8. DInv'
    BY <1>1, <1>4, <1>5, <1>6, <1>7, DarkParts, DarkWhole
<1>9. ~ Agreed
    BY <1>6 DEF Agreed
<1>10. QED
    BY <1>5, <1>8, <1>9 DEF Kept, RecordsKept

LEMMA CancelIntentKeeps ==
    ASSUME DInv, NEW agent \in Agents, NEW i \in DOMAIN intent, CancelIntent(agent, i),
           UNCHANGED changes
    PROVE  Kept
<1>1. /\ intent[i].agent = agent /\ intent[i].status = "Open"
      /\ intent' = [intent EXCEPT ![i].status = "Cancelled"]
      /\ reputation' = [reputation EXCEPT ![agent].expired_intents = @ + 1]
      /\ UNCHANGED response
      /\ UNCHANGED <<vars, venue_authorized, config, max_settlement_price_age, priced_at, now>>
    BY DEF CancelIntent
<1>2. RecordsKept /\ intent' \in Seq(IntentRecords)
    BY <1>1, IntentCancelled
<1>3. reputation' \in [Agents -> Reputations(now)]
    BY <1>1, ReputationTypes
<1>4. IInv'
    BY <1>1, DarkParts, NextIInv
<1>5. DInv'
    BY <1>1, <1>2, <1>3, <1>4, DarkParts, DarkWhole
<1>6. ~ Agreed
    BY <1>1 DEF Agreed
<1>7. QED
    BY <1>2, <1>5, <1>6 DEF Kept, RecordsKept

LEMMA CancelResponseKeeps ==
    ASSUME DInv, NEW agent \in Agents, NEW r \in DOMAIN response, CancelResponse(agent, r),
           UNCHANGED changes
    PROVE  Kept
<1>1. /\ response[r].agent = agent /\ response[r].status = "Pending"
      /\ response' = [response EXCEPT ![r].status = "Cancelled"]
      /\ reputation' = [reputation EXCEPT ![agent].cancelled_responses = @ + 1]
      /\ UNCHANGED intent
      /\ UNCHANGED <<vars, venue_authorized, config, max_settlement_price_age, priced_at, now>>
    BY DEF CancelResponse
<1>2. RecordsKept /\ response' \in Seq(ResponseRecords)
    BY <1>1, ResponseCancelled
<1>3. reputation' \in [Agents -> Reputations(now)]
    BY <1>1, ReputationTypes
<1>4. IInv'
    BY <1>1, DarkParts, NextIInv
<1>5. DInv'
    BY <1>1, <1>2, <1>3, <1>4, DarkParts, DarkWhole
<1>6. ~ Agreed
    <2>1. response[r] \in ResponseRecords
        BY PoolFacts
    <2>2. response'[r].status = "Cancelled"
        BY <1>1, <2>1 DEF ResponseRecords
    <2>3. \A s \in DOMAIN response : s # r => response'[s] = response[s]
        BY <1>1
    <2>4. QED
        BY <2>2, <2>3 DEF Agreed
<1>7. QED
    BY <1>2, <1>5, <1>6 DEF Kept, RecordsKept

LEMMA AcceptKeeps ==
    ASSUME DInv, NEW agent \in Agents, NEW i \in DOMAIN intent, NEW r \in DOMAIN response,
           AcceptAndSettle(agent, i, r), UNCHANGED changes
    PROVE  Kept
<1>1. UNCHANGED <<venue_authorized, config, max_settlement_price_age, priced_at, now>>
    BY DEF AcceptAndSettle
<1>2. IInv'
    BY DealStep DEF DealDone
<1>3. /\ RecordsKept
      /\ intent' \in Seq(IntentRecords) /\ response' \in Seq(ResponseRecords)
      /\ reputation' \in [Agents -> Reputations(now)]
    BY DealRecorded
<1>4. DInv'
    BY <1>1, <1>2, <1>3, DarkParts, DarkWhole
<1>5. \E a \in Agents, j \in DOMAIN intent, s \in DOMAIN response : AcceptAndSettle(a, j, s)
    OBVIOUS
<1>6. QED
    BY <1>3, <1>4, <1>5 DEF Kept, RecordsKept

LEMMA AgentStepKeeps ==
    ASSUME DInv, AgentStep, UNCHANGED changes
    PROVE  Kept
<1>1. PICK agent \in Agents :
        \/ \E terms \in {a[2] : a \in {b \in IntentTerms : b[1] = agent}} : PostIntent(agent, terms)
        \/ \E i \in DOMAIN intent :
              \/ CancelIntent(agent, i)
              \/ \E price \in Prices, duration \in Durations :
                    PostResponse(agent, i, price, duration)
              \/ \E r \in DOMAIN response : AcceptAndSettle(agent, i, r)
        \/ \E r \in DOMAIN response : CancelResponse(agent, r)
    BY DEF AgentStep
<1>2. CASE \E terms \in {a[2] : a \in {b \in IntentTerms : b[1] = agent}} : PostIntent(agent, terms)
    <2>1. \A a \in IntentTerms : a[2] \in Asks
        BY DarkPoolAssumption
    <2>2. QED
        BY <1>2, <2>1, PostIntentKeeps
<1>3. CASE \E i \in DOMAIN intent : CancelIntent(agent, i)
    BY <1>3, CancelIntentKeeps
<1>4. CASE \E i \in DOMAIN intent : \E price \in Prices, duration \in Durations :
                PostResponse(agent, i, price, duration)
    BY <1>4, PostResponseKeeps
<1>5. CASE \E i \in DOMAIN intent : \E r \in DOMAIN response : AcceptAndSettle(agent, i, r)
    BY <1>5, AcceptKeeps
<1>6. CASE \E r \in DOMAIN response : CancelResponse(agent, r)
    BY <1>6, CancelResponseKeeps
<1>7. QED
    BY <1>1, <1>2, <1>3, <1>4, <1>5, <1>6

\* A step that leaves the records alone settles nothing.
LEMMA ElsewhereKeeps ==
    ASSUME DInv, UNCHANGED <<intent, response, reputation>>, IInv',
           venue_authorized' \in BOOLEAN, config' \in DarkConfig,
           max_settlement_price_age' \in Budgets \cup {0},
           priced_at' \in [Markets -> 0 .. now'],
           now' \in Now, now <= now', changes' \in 0 .. MaxChanges
    PROVE  Kept
<1>1. RecordsKept
    BY RecordsAlone
<1>2. reputation' \in [Agents -> Reputations(now')]
    <2>1. now \in Nat /\ now' \in Nat /\ reputation \in [Agents -> Reputations(now)]
        BY VenueAssumption, DarkParts DEF Now
    <2>2. 0 .. now \subseteq 0 .. now'
        BY <2>1
    <2>3. Reputations(now) \subseteq Reputations(now')
        BY <2>2 DEF Reputations
    <2>4. QED
        BY <2>1, <2>3
<1>3. DInv'
    BY <1>1, <1>2, DarkParts, DarkWhole
<1>4. ~ Agreed
    BY DEF Agreed
<1>5. QED
    BY <1>1, <1>3, <1>4 DEF Kept, RecordsKept

LEMMA MarketStepKeeps ==
    ASSUME DInv, MarketStep, UNCHANGED changes
    PROVE  Kept
<1>1. IInv /\ Prices \subseteq U64 /\ Recipients \subseteq Accounts /\ Insurance \in Accounts
    BY EngineAssumption, DarkPoolAssumption, DarkParts
<1>2. now <= now
    BY DarkParts
<1>3. CASE \E m \in Markets, price \in Prices : Reprice(m, price)
    <2>1. PICK m \in Markets, price \in Prices : Reprice(m, price)
        BY <1>3
    <2>2. /\ UpdateMarkPrice(dp, m, price)
          /\ priced_at' = [priced_at EXCEPT ![m] = now]
          /\ UNCHANGED <<venue_authorized, config, max_settlement_price_age, intent, response,
                         reputation, now>>
        BY <2>1 DEF Reprice
    <2>3. IInv'
        BY <1>1, <2>2, UpdateMarkPriceStep
    <2>4. priced_at' \in [Markets -> 0 .. now]
        <3>1. now \in 0 .. now /\ priced_at \in [Markets -> 0 .. now]
            BY DarkParts
        <3>2. QED
            BY <2>2, <3>1
    <2>5. QED
        BY <1>2, <2>2, <2>3, <2>4, DarkParts, ElsewhereKeeps
<1>4. CASE \E m \in Markets, t \in Traders : Liquidated(m, t)
    <2>1. PICK m \in Markets, t \in Traders, keeper \in Recipients :
             LiquidatePosition(dp, m, t, keeper, Insurance)
        BY <1>4 DEF Liquidated
    <2>2. UNCHANGED <<venue_authorized, config, max_settlement_price_age, intent, response,
                      reputation, priced_at, now>>
        BY <1>4 DEF Liquidated, pool
    <2>3. IInv'
        BY <1>1, <2>1, LiquidatePositionStep
    <2>4. QED
        BY <1>2, <2>2, <2>3, DarkParts, ElsewhereKeeps
<1>5. QED
    BY <1>3, <1>4 DEF MarketStep

LEMMA TimePassesKeeps ==
    ASSUME DInv, TimePasses, UNCHANGED changes
    PROVE  Kept
<1>1. PICK wait \in Waits : now' = now + wait
    BY DEF TimePasses
<1>2. /\ now' <= LastTime
      /\ UNCHANGED <<vars, venue_authorized, config, max_settlement_price_age, intent, response,
                     reputation, priced_at>>
    BY DEF TimePasses
<1>3. wait \in Nat /\ now \in Nat \ {0} /\ LastTime \in Nat
    BY DarkParts, DarkPoolAssumption
<1>4. now <= now' /\ now' \in Now /\ 0 .. now \subseteq 0 .. now'
    BY <1>1, <1>2, <1>3 DEF Now
<1>5. priced_at' \in [Markets -> 0 .. now']
    BY <1>2, <1>4, DarkParts
<1>6. IInv'
    BY <1>2, DarkParts, NextIInv
<1>7. QED
    BY <1>2, <1>4, <1>5, <1>6, DarkParts, ElsewhereKeeps

\* The owner's instructions write the configuration and nothing else.
LEMMA OwnerWrites ==
    ASSUME DInv,
           \/ PoolOwnerStep
           \/ \E key \in Owners : AcceptPool(key)
           \/ \E key \in Owners, secs \in Budgets : InitFreshnessConfig(key, secs)
           \/ \E status \in BOOLEAN : SetPoolAuthorized(status)
    PROVE  /\ UNCHANGED <<vars, intent, response, reputation, priced_at, now>>
           /\ venue_authorized' \in BOOLEAN /\ config' \in DarkConfig
           /\ max_settlement_price_age' \in Budgets \cup {0}
<1>1. /\ config \in DarkConfig /\ venue_authorized \in BOOLEAN
      /\ max_settlement_price_age \in Budgets \cup {0}
    BY DarkParts
<1>2. CASE PoolOwnerStep
    <2>1. PICK key \in Owners :
            \/ \E fee \in Fees : SetFeeBps(key, fee)
            \/ \E recipient \in Recipients : SetPoolFeeRecipient(key, recipient)
            \/ \E threshold \in Thresholds : SetLargeTradeThreshold(key, threshold)
            \/ \E min_rep \in Scores : SetLargeTradeMinReputation(key, min_rep)
            \/ \E flag \in BOOLEAN : SetPoolPaused(key, flag)
            \/ \E secs \in Budgets : SetMaxSettlementPriceAge(key, secs)
            \/ \E new_owner \in Owners : TransferPool(key, new_owner)
        BY <1>2 DEF PoolOwnerStep
    <2>2. CASE \E fee \in Fees : SetFeeBps(key, fee)
        BY <1>1, <2>2 DEF SetFeeBps, PolicySet, DarkConfig
    <2>3. CASE \E recipient \in Recipients : SetPoolFeeRecipient(key, recipient)
        BY <1>1, <2>3 DEF SetPoolFeeRecipient, PolicySet, DarkConfig
    <2>4. CASE \E threshold \in Thresholds : SetLargeTradeThreshold(key, threshold)
        BY <1>1, <2>4 DEF SetLargeTradeThreshold, PolicySet, DarkConfig
    <2>5. CASE \E min_rep \in Scores : SetLargeTradeMinReputation(key, min_rep)
        BY <1>1, <2>5 DEF SetLargeTradeMinReputation, PolicySet, DarkConfig
    <2>6. CASE \E flag \in BOOLEAN : SetPoolPaused(key, flag)
        BY <1>1, <2>6 DEF SetPoolPaused, PolicySet, DarkConfig
    <2>7. CASE \E secs \in Budgets : SetMaxSettlementPriceAge(key, secs)
        BY <1>1, <2>7 DEF SetMaxSettlementPriceAge, BudgetIs
    <2>8. CASE \E new_owner \in Owners : TransferPool(key, new_owner)
        BY <1>1, <2>8 DEF TransferPool, PolicySet, DarkConfig
    <2>9. QED
        BY <2>1, <2>2, <2>3, <2>4, <2>5, <2>6, <2>7, <2>8
<1>3. CASE \E key \in Owners : AcceptPool(key)
    BY <1>1, <1>3 DEF AcceptPool, DarkConfig
<1>4. CASE \E key \in Owners, secs \in Budgets : InitFreshnessConfig(key, secs)
    BY <1>1, <1>4 DEF InitFreshnessConfig, BudgetIs
<1>5. CASE \E status \in BOOLEAN : SetPoolAuthorized(status)
    BY <1>1, <1>5 DEF SetPoolAuthorized, pool
<1>6. QED
    BY <1>2, <1>3, <1>4, <1>5

LEMMA DarkNextKeeps ==
    ASSUME DInv, [DarkNext]_dvars
    PROVE  Kept
<1>1. IInv /\ now <= now /\ changes \in 0 .. MaxChanges /\ MaxChanges \in Nat
    BY DarkParts
<1>2. CASE UNCHANGED dvars
    <2>1. UNCHANGED <<vars, venue_authorized, config, max_settlement_price_age, intent, response,
                      reputation, priced_at, now, changes>>
        BY <1>2 DEF dvars, pool
    <2>2. IInv'
        BY <1>1, <2>1, NextIInv
    <2>3. QED
        BY <1>1, <2>1, <2>2, DarkParts, ElsewhereKeeps
<1>3. CASE AgentStep /\ UNCHANGED changes
    BY <1>3, AgentStepKeeps
<1>4. CASE MarketStep /\ UNCHANGED changes
    BY <1>4, MarketStepKeeps
<1>5. CASE TimePasses /\ UNCHANGED changes
    BY <1>5, TimePassesKeeps
<1>6. CASE /\ \/ \E key \in Owners : AcceptPool(key)
              \/ \E key \in Owners, secs \in Budgets : InitFreshnessConfig(key, secs)
           /\ UNCHANGED changes
    <2>1. /\ UNCHANGED <<vars, intent, response, reputation, priced_at, now>>
          /\ venue_authorized' \in BOOLEAN /\ config' \in DarkConfig
          /\ max_settlement_price_age' \in Budgets \cup {0}
        BY <1>6, OwnerWrites
    <2>2. IInv'
        BY <1>1, <2>1, NextIInv
    <2>3. QED
        BY <1>1, <1>6, <2>1, <2>2, DarkParts, ElsewhereKeeps
<1>7. CASE GovernanceStep
    <2>1. /\ UNCHANGED <<vars, intent, response, reputation, priced_at, now>>
          /\ venue_authorized' \in BOOLEAN /\ config' \in DarkConfig
          /\ max_settlement_price_age' \in Budgets \cup {0}
        BY <1>7, OwnerWrites DEF GovernanceStep
    <2>2. IInv'
        BY <1>1, <2>1, NextIInv
    <2>3. changes' \in 0 .. MaxChanges
        <3>1. changes < MaxChanges /\ changes' \in {changes, changes + 1}
            BY <1>7 DEF GovernanceStep
        <3>2. QED
            BY <1>1, <3>1
    <2>4. QED
        BY <1>1, <2>1, <2>2, <2>3, DarkParts, ElsewhereKeeps
<1>8. QED
    BY <1>2, <1>3, <1>4, <1>5, <1>6, <1>7 DEF DarkNext

LEMMA InitDInv == IInv /\ DarkInit => DInv
<1> SUFFICES ASSUME IInv, DarkInit PROVE DInv
    OBVIOUS
<1>1. /\ intent = <<>> /\ response = <<>> /\ now = 1 /\ changes = 0
      /\ reputation = [a \in Agents |-> NewAgent]
      /\ priced_at = [m \in Markets |-> 0]
      /\ max_settlement_price_age = 0 /\ venue_authorized = TRUE
    BY DEF DarkInit
<1>2. PICK key \in Owners, recipient \in Recipients :
          config = [owner |-> key, pending_owner |-> NoKey, paused |-> FALSE,
                    fee_bps |-> DefaultPolicy[1], fee_recipient |-> recipient,
                    large_trade_threshold |-> DefaultPolicy[2],
                    large_trade_min_reputation |-> DefaultPolicy[3]]
    BY DEF DarkInit
<1>3. config \in DarkConfig
    <2>1. DefaultPolicy[1] \in Fees /\ DefaultPolicy[2] \in Thresholds /\ DefaultPolicy[3] \in Scores
        BY DarkPoolAssumption
    <2>2. QED
        BY <1>2, <2>1 DEF DarkConfig
<1>4. reputation \in [Agents -> Reputations(now)]
    <2>1. 0 \in U64
        BY LedgerAssumption DEF U64
    <2>2. NewAgent \in Reputations(now)
        BY <1>1, <2>1 DEF NewAgent, Reputations
    <2>3. QED
        BY <1>1, <2>2
<1>5. now \in Now /\ changes \in 0 .. MaxChanges
    BY <1>1, VenueAssumption DEF Now
<1>6. TypeOK
    BY DEF IInv
<1>7. DarkTypeOK
    BY <1>1, <1>3, <1>4, <1>5, <1>6 DEF DarkTypeOK, DarkConfig, Reputations
<1>8. Len(response) = 0 /\ Len(intent) = 0 /\ DOMAIN response = 1 .. 0 /\ DOMAIN intent = 1 .. 0
    BY <1>1
<1>9. FilledOnce /\ Counterparties
    BY <1>8 DEF FilledOnce, Counterparties
<1>10. ASSUME NEW a \in Agents
       PROVE  EarnedExactly(a)
    <2>1. /\ TradesOf(a) \in [1 .. 0 -> Int] /\ VolumesOf(a) \in [1 .. 0 -> Int]
          /\ IntentsWithdrawnBy(a) \in [1 .. 0 -> Int]
          /\ ResponsesWithdrawnBy(a) \in [1 .. 0 -> Int]
        BY <1>8 DEF TradesOf, VolumesOf, IntentsWithdrawnBy, ResponsesWithdrawnBy
    <2>2. /\ SumTo(TradesOf(a), 0) = 0 /\ SumTo(VolumesOf(a), 0) = 0
          /\ SumTo(IntentsWithdrawnBy(a), 0) = 0 /\ SumTo(ResponsesWithdrawnBy(a), 0) = 0
        <3>1. ASSUME NEW f \in [1 .. 0 -> Int] PROVE SumTo(f, 0) = 0
            <4>1. \A i \in 1 .. 0 : f[i] = 0
                OBVIOUS
            <4>2. 0 \in Nat
                OBVIOUS
            <4>3. QED
                BY <4>1, <4>2, SumZero
        <3>2. QED
            BY <2>1, <3>1
    <2>3. AtMost(MaxU64, 0) = 0
        BY LedgerAssumption DEF AtMost
    <2>4. QED
        BY <1>1, <1>8, <2>2, <2>3 DEF EarnedExactly, NewAgent
<1>11. ReputationEarned
    BY <1>10 DEF ReputationEarned, EarnedExactly
<1>12. QED
    BY <1>7, <1>9, <1>11 DEF DInv

LEMMA DarkInvariance == DarkPoolOnAnyEngine => []DInv
<1>1. DInv /\ [DarkNext]_dvars => DInv'
    BY DarkNextKeeps DEF Kept
<1>2. QED
    BY InitDInv, <1>1, PTL DEF DarkPoolOnAnyEngine

LEMMA DeploymentHasAPool == DarkSpec => DarkPoolOnAnyEngine
BY DeployedIInv DEF DarkSpec, DarkStart, DarkPoolOnAnyEngine

\* The records are typed and every filled intent is matched to one accepted
\* response that was made to it, however agents race.
THEOREM DarkBooks == DarkPoolOnAnyEngine => []DarkInv
<1>1. DInv => DarkInv
    BY DEF DInv, DarkInv
<1>2. QED
    BY <1>1, DarkInvariance, PTL

\* A reputation counts what the agent settled and withdrew, each once: the
\* counters accept_and_settle and the two cancels increment never drift from
\* the records they summarise.
THEOREM ReputationsEarned == DarkPoolOnAnyEngine => []ReputationEarned
<1>1. DInv => ReputationEarned
    BY DEF DInv
<1>2. QED
    BY <1>1, DarkInvariance, PTL

\* What two agents agreed is what happens, once, and nothing they withdrew.
THEOREM AgreementsAlwaysHold == DarkPoolOnAnyEngine => AgreementsHold
<1> DEFINE Deal(r) ==
            LET i == response[r].intent_id
                signed == IF intent[i].is_buy THEN intent[i].size ELSE -intent[i].size
            IN  /\ intent[i].status = "Open" /\ response[r].status = "Pending"
                /\ now <= intent[i].expires_at /\ now <= response[r].expires_at
                /\ \A m \in Markets, t \in Traders :
                      LET old == position[m][t]
                          new == position'[m][t]
                      IN  /\ new.size - old.size =
                                IF m # intent[i].market_id THEN 0
                                ELSE IF t = intent[i].agent THEN signed
                                ELSE IF t = response[r].agent THEN -signed ELSE 0
                          /\ old.size = 0 /\ new.size # 0
                                => new.entry_price \in intent[i].min_price .. intent[i].max_price
           Agreement == Agreed => \E r \in DOMAIN response : Deal(r)
<1>1. ASSUME DInv, [DarkNext]_dvars
      PROVE  Agreement
    <2> SUFFICES ASSUME Agreed PROVE \E r \in DOMAIN response : Deal(r)
        OBVIOUS
    <2>1. PICK agent \in Agents, i \in DOMAIN intent, r \in DOMAIN response :
             AcceptAndSettle(agent, i, r)
        BY <1>1, DarkNextKeeps DEF Kept
    <2>2. /\ intent[i].status = "Open" /\ response[r].status = "Pending"
          /\ response[r].intent_id = i
          /\ now <= intent[i].expires_at /\ now <= response[r].expires_at
        BY <1>1, <2>1, DealRecorded
    <2>3. DealDone(intent[i].market_id, Buyer(i, r), Seller(i, r),
                   intent[i].size, response[r].price, FeePerSide(i, r))
        BY <1>1, <2>1, DealStep
    <2>4. /\ intent[i].size \in Nat
          /\ {Buyer(i, r), Seller(i, r)} = {intent[i].agent, response[r].agent}
          /\ intent[i].agent # response[r].agent
          /\ response[r].price \in intent[i].min_price .. intent[i].max_price
          /\ intent[i].is_buy \in BOOLEAN
          /\ intent[i].market_id \in Markets
          /\ intent[i].agent \in Traders /\ response[r].agent \in Traders
        BY <1>1, <2>2, PartyFacts, PoolFacts DEF IntentRecords, Agents, Buyer, Seller
    <2> DEFINE k == intent[i].market_id
               a == intent[i].agent
               b == response[r].agent
               size == intent[i].size
               price == response[r].price
               signed == IF intent[i].is_buy THEN size ELSE -size
    <2>5. \A m \in Markets, t \in Traders : position[m][t].size \in Int
        BY <1>1, StateFacts DEF DInv
    <2>6. /\ \A m \in Markets, t \in Traders :
                m # k \/ t \notin {a, b} => position'[m][t] = position[m][t]
          /\ \A t \in {a, b} : position[k][t].size = 0 => position'[k][t].entry_price = price
        BY <2>3, <2>4 DEF DealDone
    <2>7. /\ position'[k][a].size - position[k][a].size = signed
          /\ position'[k][b].size - position[k][b].size = -signed
        <3>1. position[k][a].size \in Int /\ position[k][b].size \in Int
            BY <2>4, <2>5
        <3>2. CASE intent[i].is_buy
            <4>1. Buyer(i, r) = a /\ Seller(i, r) = b
                BY <3>2 DEF Buyer, Seller
            <4>2. QED
                BY <2>3, <2>4, <3>1, <3>2, <4>1 DEF DealDone
        <3>3. CASE ~ intent[i].is_buy
            <4>1. Buyer(i, r) = b /\ Seller(i, r) = a
                BY <3>3 DEF Buyer, Seller
            <4>2. QED
                BY <2>3, <2>4, <3>1, <3>3, <4>1 DEF DealDone
        <3>4. QED
            BY <3>2, <3>3
    <2>8. ASSUME NEW m \in Markets, NEW t \in Traders
          PROVE  /\ position'[m][t].size - position[m][t].size =
                       IF m # k THEN 0
                       ELSE IF t = a THEN signed ELSE IF t = b THEN -signed ELSE 0
                 /\ position[m][t].size = 0 /\ position'[m][t].size # 0
                       => position'[m][t].entry_price \in intent[i].min_price .. intent[i].max_price
        <3> HIDE DEF k, a, b, signed
        <3>1. CASE m # k \/ t \notin {a, b}
            BY <2>5, <2>6, <3>1
        <3>2. CASE m = k /\ t = a
            BY <2>4, <2>6, <2>7, <3>2
        <3>3. CASE m = k /\ t = b
            BY <2>4, <2>6, <2>7, <3>3 DEF a, b
        <3>4. QED
            BY <3>1, <3>2, <3>3
    <2>9. Deal(r)
        BY <2>2, <2>8
    <2>10. QED
        BY <2>9
<1>2. ASSUME DInv, [DarkNext]_dvars
      PROVE  RecordsStay
    BY <1>2, DarkNextKeeps DEF Kept
<1> HIDE DEF Agreement
<1>3. DarkPoolOnAnyEngine => [][Agreement]_dvars /\ [][RecordsStay]_dvars
    BY <1>1, <1>2, DarkInvariance, PTL DEF DarkPoolOnAnyEngine
<1>4. DarkPoolOnAnyEngine => AgreedTermsKept
    BY <1>3 DEF AgreedTermsKept, Agreement
<1>5. DarkPoolOnAnyEngine => StatusesFinal
    BY <1>3 DEF StatusesFinal, RecordsStay
<1>6. QED
    BY <1>4, <1>5 DEF AgreementsHold

\* A settlement charges both sides alike, at the fee in force when its intent
\* was posted, whatever the owner has set since.
THEOREM FeesAlwaysAsPosted == DarkPoolOnAnyEngine => FeesAsPosted
<1> DEFINE Charged ==
        (Agreed /\ config.fee_recipient \notin Traders \cup {Pool}) =>
        \E r \in DOMAIN response :
            /\ response'[r].status # response[r].status
            /\ Spendable(ledger', config.fee_recipient) - Spendable(ledger, config.fee_recipient)
                  = 2 * Share(intent[response[r].intent_id].fee_bps_at_post,
                              TradeNotional(response[r].intent_id, r))
<1>1. ASSUME DInv, [DarkNext]_dvars
      PROVE  Charged
    <2> SUFFICES ASSUME Agreed, config.fee_recipient \notin Traders \cup {Pool}
                 PROVE  Charged
        OBVIOUS
    <2>1. PICK agent \in Agents, i \in DOMAIN intent, r \in DOMAIN response :
             AcceptAndSettle(agent, i, r)
        BY <1>1, DarkNextKeeps DEF Kept
    <2>2. /\ response[r].status = "Pending" /\ response'[r].status = "Accepted"
          /\ response[r].intent_id = i /\ TradeNotional(i, r) \in Nat
        BY <1>1, <2>1, DealRecorded
    <2> DEFINE fee == FeePerSide(i, r)
               x == Spendable(ledger, config.fee_recipient)
    <2>3. Spendable(ledger', config.fee_recipient) = x + fee + fee
        BY <1>1, <2>1, DealStep DEF DealDone
    <2>4. fee \in Nat
        <3>1. intent[i].fee_bps_at_post \in Nat
            BY <1>1, <2>2, PartyFacts
        <3>2. QED
            BY <2>2, <3>1, ShareType DEF FeePerSide
    <2>5. x \in Int
        <3>1. ledger \in Ledgers /\ config.fee_recipient \in Accounts
            BY <1>1, PoolFacts DEF DInv, IInv, TypeOK
        <3>2. QED
            BY <3>1, LedgerAssumption DEF Spendable, Ledgers, U64
    <2>6. fee = Share(intent[response[r].intent_id].fee_bps_at_post,
                      TradeNotional(response[r].intent_id, r))
        BY <2>2 DEF FeePerSide
    <2> HIDE DEF fee, x
    <2>7. Spendable(ledger', config.fee_recipient) - x = 2 * fee
        BY <2>3, <2>4, <2>5
    <2>8. QED
        BY <2>2, <2>6, <2>7 DEF x
<1> HIDE DEF Charged
<1>2. DarkPoolOnAnyEngine => [][Charged]_dvars
    BY <1>1, DarkInvariance, PTL DEF DarkPoolOnAnyEngine
<1>3. QED
    BY <1>2 DEF FeesAsPosted, Charged

\* Both sides of a settlement or neither: the sizes of every market add up to
\* what they did before, and the vault's two totals stay.
THEOREM BothSidesAlways == DarkPoolOnAnyEngine => BothSidesOrNone
<1> DEFINE Balanced ==
        Agreed =>
          /\ \A m \in Markets : NetSize(position', m) = NetSize(position, m)
          /\ TotalBalance(ledger') = TotalBalance(ledger)
          /\ TotalCollateral(ledger') = TotalCollateral(ledger)
<1>1. ASSUME DInv, [DarkNext]_dvars
      PROVE  Balanced
    <2> SUFFICES ASSUME Agreed PROVE Balanced
        OBVIOUS
    <2>1. PICK agent \in Agents, i \in DOMAIN intent, r \in DOMAIN response :
             AcceptAndSettle(agent, i, r)
        BY <1>1, DarkNextKeeps DEF Kept
    <2>2. QED
        BY <1>1, <2>1, DealStep DEF DealDone
<1> HIDE DEF Balanced
<1>2. DarkPoolOnAnyEngine => [][Balanced]_dvars
    BY <1>1, DarkInvariance, PTL DEF DarkPoolOnAnyEngine
<1>3. QED
    BY <1>2 DEF BothSidesOrNone, Balanced

\* All of it for the system a deployment leaves, where the run starts too.
THEOREM DeployedDarkPool ==
    DarkSpec => /\ []DarkInv /\ []ReputationEarned
                /\ AgreementsHold /\ FeesAsPosted /\ BothSidesOrNone
BY DeploymentHasAPool, DarkBooks, ReputationsEarned, AgreementsAlwaysHold,
   FeesAlwaysAsPosted, BothSidesAlways

--------------------------------------------------------------------------------
(* The trading vault *)

\* The vault's program may be deployed beside any engine whose books are
\* sound, as long as nobody has a position in the vault's name.
VaultOnAnyEngine ==
    /\ IInv
    /\ \A m \in Markets : position[m][VaultRow].size = 0
    /\ VaultInit
    /\ [][VaultNext]_allvars

VaultRecord ==
    [created : BOOLEAN, manager : Managers \cup {NoAccount}, paused : BOOLEAN,
     total_shares : Nat, performance_fee_bps : 0 .. MAX_PERFORMANCE_FEE_BPS,
     management_fee_bps : 0 .. MAX_MANAGEMENT_FEE_BPS, high_water_mark : Nat,
     last_fee_accrual : Nat, deposit_cap : U64, lockup_period_secs : Nat,
     max_drawdown_bps : 0 .. MAX_DRAWDOWN_BPS, drawdown_paused_at : Nat,
     open_markets : SUBSET Markets]
VaultConfig ==
    [owner : VaultOwners, pending_owner : VaultOwners \cup {NoKey},
     drawdown_cooldown_secs : Nat, operators : SUBSET VaultOwners]
Holdings == [shares : Nat, deposit_timestamp : Nat]
Bills == [since : Nat, management : Nat, top_equity : U64, charged_at : Nat]
NoBills == [since |-> 0, management |-> 0, top_equity |-> 0, charged_at |-> 0]

\* No stamp is in the future.
StampsPast ==
    /\ now \in Now
    /\ vault.last_fee_accrual <= now
    /\ vault.drawdown_paused_at <= now
    /\ billed.since <= vault.last_fee_accrual
    /\ \A a \in Accounts : holding[a].deposit_timestamp <= now
    /\ last_breach \in 0 .. now

\* What ChargedOnce follows from: fees are paid up to the last accrual.
PaidUpTo ==
    billed.management * BPS * SECONDS_PER_YEAR
        <= billed.top_equity * vault.management_fee_bps * (vault.last_fee_accrual - billed.since)

\* The mark is never below the worth on which a performance fee was taken.
MarkCovers == billed.charged_at <= vault.high_water_mark

NothingYet == ~ vault.created => vault = NoVault /\ billed = NoBills

CooldownChoices == Cooldowns \cup {DEFAULT_DRAWDOWN_COOLDOWN_SECS}

CooledDown == \E secs \in CooldownChoices : now - last_breach >= secs

\* After a breach the vault stays paused with the breach's own stamp until a
\* cooldown has passed.
BreakerHolds ==
    /\ config.drawdown_cooldown_secs \in CooldownChoices
    /\ last_breach > 0 => \/ vault.paused /\ vault.drawdown_paused_at = last_breach
                          \/ CooledDown

\* The types without their bounds by the clock.
VaultTyped ==
    /\ venue_authorized \in BOOLEAN
    /\ config \in VaultConfig
    /\ vault \in VaultRecord
    /\ vault.created => vault.manager \in Managers
    /\ row_open \in BOOLEAN
    /\ holding \in [Accounts -> Holdings]
    /\ billed \in Bills
    /\ changes \in 0 .. MaxChanges

VInv ==
    /\ IInv
    /\ VaultTyped
    /\ StampsPast
    /\ SharesAddUp
    /\ RegistryComplete
    /\ PaidUpTo
    /\ MarkCovers
    /\ NothingYet
    /\ BreakerHolds

LEMMA VaultConstants ==
    /\ VaultRow \in Traders /\ VaultRow \in Accounts
    /\ Depositors \cup Managers \subseteq Accounts \ {VaultRow}
    /\ PRICE_PRECISION \in Nat \ {0} /\ SHARE_PER_PRICE \in Nat \ {0}
    /\ SECONDS_PER_YEAR \in Nat \ {0} /\ BPS \in Nat \ {0}
    /\ SHARE_PRECISION \in Nat \ {0}
    /\ MAX_PERFORMANCE_FEE_BPS \in Nat /\ MAX_MANAGEMENT_FEE_BPS \in Nat /\ MAX_DRAWDOWN_BPS \in Nat
    /\ DEFAULT_DRAWDOWN_COOLDOWN_SECS \in Nat
    /\ Amounts \subseteq U64 /\ Caps \subseteq U64 /\ U64 \subseteq Nat /\ 0 \in U64
    /\ Redemptions \subseteq Nat /\ CooldownChoices \subseteq Nat /\ Cooldowns \subseteq Nat
    /\ LastTime \in Nat \ {0} /\ MaxChanges \in Nat
    /\ NumMarkets \in Nat /\ Markets = 1 .. NumMarkets
    /\ NumAccounts \in Nat /\ Accounts = 1 .. NumAccounts
    /\ NoAccount \notin Accounts
<1>1. /\ {PRICE_PRECISION, SHARE_PER_PRICE, SECONDS_PER_YEAR} \subseteq Nat \ {0}
      /\ {MAX_PERFORMANCE_FEE_BPS, MAX_MANAGEMENT_FEE_BPS, MAX_DRAWDOWN_BPS,
          DEFAULT_DRAWDOWN_COOLDOWN_SECS} \subseteq Nat
    BY TradingVaultAssumption
<1>2. PRICE_PRECISION * SHARE_PER_PRICE \in Nat \ {0}
    BY <1>1
<1>3. VaultRow \in Accounts
    BY TradingVaultAssumption, EngineAssumption, LedgerAssumption DEF Traders, Accounts
<1>4. U64 \subseteq Nat /\ 0 \in U64
    BY LedgerAssumption DEF U64
<1>5. QED
    BY <1>1, <1>2, <1>3, <1>4, TradingVaultAssumption, EngineAssumption, LedgerAssumption,
       VenueAssumption
    DEF SHARE_PRECISION, CooldownChoices, Markets, Accounts

--------------------------------------------------------------------------------
(* Arithmetic of shares *)

LEMMA FloorFacts ==
    ASSUME NEW x \in Nat, NEW d \in Nat \ {0}
    PROVE  x \div d \in Nat /\ (x \div d) * d <= x /\ d * (x \div d) <= x
OBVIOUS

LEMMA FloorBelow ==
    ASSUME NEW x \in Nat, NEW d \in Nat \ {0}, NEW y \in Nat, x <= y * d
    PROVE  x \div d <= y
<1>1. y * d \in Nat
    OBVIOUS
<1>2. x \div d <= (y * d) \div d
    BY <1>1, DivMonotone
<1>3. (y * d) \div d = y
    BY DivOfMultiple
<1>4. QED
    BY <1>2, <1>3

\* Shares issued for an amount, rounded down, leave the others their worth.
LEMMA IssueIsFair ==
    ASSUME NEW left \in Nat, NEW total \in Nat, NEW amount \in Nat, NEW shares \in Nat,
           shares * left <= amount * total
    PROVE  (left + amount) * total >= left * (total + shares)
<1>1. (left + amount) * total = left * total + amount * total
    OBVIOUS
<1>2. left * (total + shares) = left * total + shares * left
    OBVIOUS
<1> DEFINE x == left * total
           y == amount * total
           z == shares * left
<1>3. x \in Nat /\ y \in Nat /\ z \in Nat /\ z <= y
    OBVIOUS
<1> HIDE DEF x, y, z
<1>4. x + y >= x + z
    BY <1>3
<1>5. QED
    BY <1>1, <1>2, <1>4 DEF x, y, z

\* What shares are redeemed for, rounded down, leaves the others their worth.
LEMMA RedemptionIsFair ==
    ASSUME NEW left \in Nat, NEW total \in Nat, NEW usdc \in Nat, NEW shares \in Nat,
           usdc * total <= shares * left
    PROVE  (left - usdc) * total >= left * (total - shares)
<1>1. (left - usdc) * total = left * total - usdc * total
    OBVIOUS
<1>2. left * (total - shares) = left * total - shares * left
    OBVIOUS
<1> DEFINE x == left * total
           y == usdc * total
           z == shares * left
<1>3. x \in Nat /\ y \in Nat /\ z \in Nat /\ y <= z
    OBVIOUS
<1> HIDE DEF x, y, z
<1>4. x - y >= x - z
    BY <1>3
<1>5. QED
    BY <1>1, <1>2, <1>4 DEF x, y, z

--------------------------------------------------------------------------------
(* Worth and fees *)

LEMMA VaultParts ==
    ASSUME VInv
    PROVE  /\ IInv /\ TypeOK /\ venue_authorized \in BOOLEAN /\ config \in VaultConfig
           /\ vault \in VaultRecord /\ (vault.created => vault.manager \in Managers)
           /\ row_open \in BOOLEAN /\ holding \in [Accounts -> Holdings] /\ billed \in Bills
           /\ changes \in 0 .. MaxChanges
           /\ now \in Nat \ {0} /\ vault.last_fee_accrual \in Nat /\ vault.last_fee_accrual <= now
           /\ vault.total_shares \in Nat /\ vault.management_fee_bps \in Nat
           /\ vault.performance_fee_bps \in Nat /\ vault.high_water_mark \in Nat
           /\ ledger \in Ledgers /\ vault_gate \in VaultGates
<1>1. IInv /\ VaultTyped /\ StampsPast
    BY DEF VInv
<1>2. TypeOK
    BY <1>1 DEF IInv
<1>3. ledger \in Ledgers /\ vault_gate \in VaultGates
    BY <1>2 DEF TypeOK
<1>4. vault \in VaultRecord
    BY <1>1 DEF VaultTyped
<1>5. /\ vault.last_fee_accrual \in Nat /\ vault.total_shares \in Nat
      /\ vault.management_fee_bps \in Nat /\ vault.performance_fee_bps \in Nat
      /\ vault.high_water_mark \in Nat
    BY <1>4, VaultConstants DEF VaultRecord
<1>6. now \in Nat \ {0} /\ vault.last_fee_accrual <= now
    BY <1>1, VaultConstants DEF StampsPast, Now
<1>7. QED
    BY <1>1, <1>2, <1>3, <1>4, <1>5, <1>6 DEF VaultTyped

LEMMA ValueFacts ==
    ASSUME VInv, NEW m \in Markets
    PROVE  /\ ValueIn(m) \in Int
           /\ position[m][VaultRow].size = 0 => ValueIn(m) = 0
<1> DEFINE pos == position[m][VaultRow]
           pnl == Pnl(pos.size, pos.entry_price, market[m].mark_price)
<1>1. /\ pos.size \in Int /\ pos.entry_price \in Nat /\ pos.margin \in Nat
      /\ market[m].mark_price \in Nat /\ market[m].initial_margin_bps \in Nat
    BY VaultParts, VaultConstants, StateFacts
<1>2. pnl \in Int
    BY <1>1, PnlType
<1>3. ASSUME pos.size = 0
      PROVE  pos.margin = 0 /\ pnl = 0
    <2>1. pos.margin = RequiredMargin(market[m].initial_margin_bps, Abs(pos.size), pos.entry_price)
        BY VaultConstants DEF VInv, IInv, MarginIsRequired
    <2>2. pos.margin = 0
        BY <1>1, <1>3, <2>1, NoMarginForNothing DEF Abs
    <2>3. Abs(pos.size) = 0
        BY <1>3 DEF Abs
    <2>4. pnl = TruncDiv(0, SIZE_PRECISION)
        BY <1>1, <1>3, <2>3 DEF Pnl
    <2>5. TruncDiv(0, SIZE_PRECISION) = 0
        BY EngineAssumption, DivFacts DEF TruncDiv
    <2>6. QED
        BY <2>2, <2>4, <2>5
<1>4. ValueIn(m) = pos.margin + pnl
    BY DEF ValueIn
<1> HIDE DEF pos, pnl
<1>5. pos.size = 0 => ValueIn(m) = 0
    BY <1>3, <1>4
<1>6. ValueIn(m) \in Int
    BY <1>1, <1>2, <1>4
<1>7. QED
    BY <1>5, <1>6 DEF pos

RegisteredValues == [m \in Markets |-> IF m \in vault.open_markets THEN ValueIn(m) ELSE 0]
Values == [m \in Markets |-> ValueIn(m)]

\* No position is outside of the registry, so the equity the program computes
\* is what the vault is worth, floored at zero.
LEMMA EquityFacts ==
    ASSUME VInv
    PROVE  /\ Spendable(ledger, VaultRow) \in Nat
           /\ Worth \in Int /\ Equity \in Nat
           /\ Equity = Larger(0, Worth)
           /\ Equity > 0 => Worth = Equity
           /\ (\A m \in Markets : position[m][VaultRow].size = 0) => Equity = Spendable(ledger, VaultRow)
<1>1. ledger \in Ledgers /\ VaultRow \in Accounts /\ Markets = 1 .. NumMarkets /\ NumMarkets \in Nat
    BY VaultParts, VaultConstants
<1>2. Spendable(ledger, VaultRow) \in Nat
    <2>1. ledger.balance[VaultRow] \in U64 /\ ledger.collateral_balance[VaultRow] \in U64
        BY <1>1 DEF Ledgers
    <2>2. QED
        BY <2>1, LedgerAssumption DEF Spendable, U64
<1>3. \A m \in Markets : /\ ValueIn(m) \in Int
                         /\ m \notin vault.open_markets => ValueIn(m) = 0
    BY ValueFacts DEF VInv, RegistryComplete
<1>4. RegisteredValues = Values /\ Values \in [1 .. NumMarkets -> Int]
    BY <1>1, <1>3 DEF RegisteredValues, Values
<1>5. SumTo(Values, NumMarkets) \in Int
    BY <1>1, <1>4, SumType
<1>6. /\ Worth = Spendable(ledger, VaultRow) + SumTo(Values, NumMarkets)
      /\ Equity = Larger(0, Spendable(ledger, VaultRow) + SumTo(RegisteredValues, NumMarkets))
    BY DEF Worth, Equity, Values, RegisteredValues
<1>7. (\A m \in Markets : position[m][VaultRow].size = 0) => SumTo(Values, NumMarkets) = 0
    <2> SUFFICES ASSUME \A m \in Markets : position[m][VaultRow].size = 0
                 PROVE  SumTo(Values, NumMarkets) = 0
        OBVIOUS
    <2>1. \A m \in 1 .. NumMarkets : Values[m] = 0
        BY <1>1, ValueFacts DEF Values
    <2>2. QED
        BY <1>1, <1>4, <2>1, SumZero
<1>8. Worth \in Int /\ Equity = Larger(0, Worth)
    BY <1>2, <1>4, <1>5, <1>6
<1>9. Equity \in Nat /\ (Equity > 0 => Worth = Equity)
    BY <1>8 DEF Larger
<1>10. QED
    BY <1>2, <1>5, <1>6, <1>7, <1>8, <1>9 DEF Larger

LEMMA PerShareFacts ==
    ASSUME NEW equity \in Nat, NEW shares \in Nat \ {0}
    PROVE  /\ EquityPerShare(equity, shares) \in Nat
           /\ EquityPerShare(equity, shares) * shares <= equity * SHARE_PRECISION
<1>1. equity * SHARE_PRECISION \in Nat
    BY VaultConstants
<1>2. QED
    BY <1>1, FloorFacts DEF EquityPerShare

\* Neither fee can take the vault to nothing.
LEMMA FeesOfVault ==
    ASSUME VInv
    PROVE  /\ ManagementFee(Equity) \in Nat
           /\ ManagementTaken \in Nat /\ ManagementTaken <= Equity
           /\ ManagementTaken <= ManagementFee(Equity)
           /\ Equity - ManagementTaken \in Nat
           /\ Equity > 0 => Equity - ManagementTaken > 0
           /\ PerformanceFee(Equity - ManagementTaken) \in Nat
           /\ PerformanceTaken \in Nat
           /\ Equity - ManagementTaken - PerformanceTaken \in Nat
           /\ Equity > 0 => Equity - ManagementTaken - PerformanceTaken > 0
           /\ PerformanceTaken > 0 => AtNewHigh(Equity - ManagementTaken)
<1>1. Equity \in Nat
    BY EquityFacts
<1> DEFINE fee == ManagementFee(Equity)
<1>2. fee \in Nat
    <2>1. now - vault.last_fee_accrual \in Nat
        BY VaultParts
    <2>2. Equity * vault.management_fee_bps * (now - vault.last_fee_accrual) \in Nat
        BY <1>1, <2>1, VaultParts
    <2>3. BPS * SECONDS_PER_YEAR \in Nat \ {0}
        BY VaultConstants
    <2>4. QED
        BY <2>2, <2>3, FloorFacts DEF ManagementFee
<1> DEFINE left == Equity - ManagementTaken
<1>3. ManagementTaken \in Nat /\ ManagementTaken <= Equity /\ (Equity > 0 => ManagementTaken < Equity)
      /\ ManagementTaken <= fee
    BY <1>1, <1>2 DEF ManagementTaken, Taken
<1>4. left \in Nat /\ (Equity > 0 => left > 0)
    BY <1>1, <1>3
<1> HIDE DEF left, fee
<1> DEFINE perf == PerformanceFee(left)
<1>5. perf \in Nat /\ (perf > 0 => AtNewHigh(left))
    <2>1. CASE ~ AtNewHigh(left)
        BY <2>1 DEF PerformanceFee
    <2>2. CASE AtNewHigh(left)
        <3> DEFINE gain == EquityPerShare(left, vault.total_shares) - vault.high_water_mark
                   profit == (gain * vault.total_shares) \div SHARE_PRECISION
        <3>1. vault.total_shares \in Nat \ {0}
            BY <2>2, VaultParts DEF AtNewHigh
        <3>2. EquityPerShare(left, vault.total_shares) \in Nat
            BY <1>4, <3>1, PerShareFacts
        <3>3. gain \in Nat
            BY <2>2, <3>2, VaultParts DEF AtNewHigh
        <3> HIDE DEF gain
        <3>4. gain * vault.total_shares \in Nat
            BY <3>1, <3>3
        <3>5. profit \in Nat
            BY <3>4, VaultConstants, FloorFacts
        <3> HIDE DEF profit
        <3>6. profit * vault.performance_fee_bps \in Nat
            BY <3>5, VaultParts
        <3>7. Share(vault.performance_fee_bps, profit) \in Nat
            BY <3>6, VaultConstants, FloorFacts DEF Share
        <3>8. perf = Share(vault.performance_fee_bps, profit)
            BY <2>2 DEF PerformanceFee, profit, gain
        <3>9. QED
            BY <2>2, <3>7, <3>8
    <2>3. QED
        BY <2>1, <2>2
<1>6. PerformanceTaken = Taken(perf, left)
    BY DEF PerformanceTaken, left, perf
<1> HIDE DEF perf
<1>7. /\ PerformanceTaken \in Nat /\ PerformanceTaken <= left
      /\ (left > 0 => PerformanceTaken < left)
      /\ (PerformanceTaken > 0 => perf > 0)
    BY <1>4, <1>5, <1>6 DEF Taken
<1>8. left - PerformanceTaken \in Nat /\ (Equity > 0 => left - PerformanceTaken > 0)
    BY <1>4, <1>7
<1>9. QED
    BY <1>2, <1>3, <1>4, <1>5, <1>7, <1>8 DEF left, fee, perf

--------------------------------------------------------------------------------
(* Coming and going *)

\* What an instruction of a depositor does to the vault's row and the engine.
RowMoves(left) ==
    /\ IInv' /\ LedgerKept
    /\ UNCHANGED <<position, market>>
    /\ Spendable(ledger', VaultRow) = left

LEMMA LedgerStep ==
    ASSUME IInv, UNCHANGED <<admin, engine_pool, market, position, vault_gate>>,
           ledger' \in Ledgers
    PROVE  IInv'
<1>1. TypeOK
    BY DEF IInv
<1>2. TypeOK'
    BY <1>1 DEF TypeOK, admin
<1>3. QED
    BY <1>2, ElsewhereStep

\* Shares of a new holder, for a deposit on what the management fee leaves.
Issued(d, amount, shares) ==
    LET left == Equity - ManagementTaken
    IN  /\ vault.created /\ ~ vault.paused
        /\ EquityFits
        /\ shares \in Nat \ {0}
        /\ vault.total_shares > 0 => left > 0 /\ shares * left <= amount * vault.total_shares
        /\ vault' = [vault EXCEPT
               !.total_shares = vault.total_shares + shares,
               !.last_fee_accrual = now,
               !.high_water_mark = Larger(vault.high_water_mark,
                   EquityPerShare(left + amount, vault.total_shares + shares))]
        /\ holding' = [holding EXCEPT ![d] = [shares |-> holding[d].shares + shares,
                                              deposit_timestamp |-> now]]
        /\ billed' = Billed(Equity, ManagementTaken, 0)
        /\ UNCHANGED <<venue_authorized, config, row_open, now, last_breach>>

LEMMA DepositStep ==
    ASSUME VInv, NEW d \in Depositors, NEW amount \in U64, Deposit(d, amount)
    PROVE  /\ RowMoves(Spendable(ledger, VaultRow) - ManagementTaken + amount)
           /\ \E shares \in Nat : Issued(d, amount, shares)
<1> DEFINE left == Equity - ManagementTaken
           shares == SharesFor(amount, left)
           charged == Paid(ledger, VaultRow, vault.manager, ManagementTaken)
<1>1. /\ vault.created /\ ~ vault.paused /\ EquityFits /\ shares > 0
      /\ FeePayable(ledger, VaultRow, vault.manager, ManagementTaken)
      /\ FeePayable(charged, d, VaultRow, amount)
      /\ ledger' = Paid(charged, d, VaultRow, amount)
      /\ UNCHANGED <<admin, engine_pool, market, position, vault_gate, venue_authorized,
                     config, row_open, now, last_breach>>
      /\ billed' = Billed(Equity, ManagementTaken, 0)
    BY DEF Deposit
<1>2. /\ vault' = [vault EXCEPT
               !.total_shares = vault.total_shares + shares,
               !.last_fee_accrual = now,
               !.high_water_mark = Larger(vault.high_water_mark,
                   EquityPerShare(left + amount, vault.total_shares + shares))]
      /\ holding' = [holding EXCEPT ![d] = [shares |-> holding[d].shares + shares,
                                            deposit_timestamp |-> now]]
    BY DEF Deposit
<1>3. /\ vault.manager \in Accounts /\ vault.manager # VaultRow
      /\ d \in Accounts /\ d # VaultRow /\ VaultRow \in Accounts
      /\ amount \in Nat /\ ledger \in Ledgers /\ vault_gate \in VaultGates
      /\ ManagementTaken \in Nat /\ left \in Nat /\ vault.total_shares \in Nat
    BY <1>1, VaultParts, VaultConstants, FeesOfVault
<1>4. shares \in Nat \ {0}
      /\ (vault.total_shares > 0 => left > 0 /\ shares * left <= amount * vault.total_shares)
    <2>1. CASE vault.total_shares = 0
        BY <1>1, <1>3, <2>1, VaultConstants DEF SharesFor
    <2>2. CASE vault.total_shares > 0
        <3>1. left > 0 /\ shares = (amount * vault.total_shares) \div left
            BY <1>1, <1>3, <2>2 DEF SharesFor
        <3> HIDE DEF left
        <3>2. amount * vault.total_shares \in Nat /\ left \in Nat \ {0}
            BY <1>3, <3>1
        <3>3. shares \in Nat /\ shares * left <= amount * vault.total_shares
            BY <3>1, <3>2, FloorFacts
        <3>4. QED
            BY <1>1, <2>2, <3>1, <3>3
    <2>3. QED
        BY <1>3, <2>1, <2>2
<1> HIDE DEF shares, left
<1>5. /\ charged \in Ledgers
      /\ TotalBalance(charged) = TotalBalance(ledger)
      /\ TotalCollateral(charged) = TotalCollateral(ledger)
      /\ Spendable(charged, VaultRow) = Spendable(ledger, VaultRow) - ManagementTaken
    BY <1>1, <1>3, FeeFacts
<1> HIDE DEF charged
<1>6. /\ ledger' \in Ledgers
      /\ TotalBalance(ledger') = TotalBalance(charged)
      /\ TotalCollateral(ledger') = TotalCollateral(charged)
      /\ Spendable(ledger', VaultRow) = Spendable(charged, VaultRow) + amount
    BY <1>1, <1>3, <1>5, FeeFacts
<1>7. IInv'
    BY <1>1, <1>6, VaultParts, LedgerStep
<1>8. RowMoves(Spendable(ledger, VaultRow) - ManagementTaken + amount)
    BY <1>1, <1>5, <1>6, <1>7 DEF RowMoves, LedgerKept
<1>9. Issued(d, amount, shares)
    BY <1>1, <1>2, <1>4 DEF Issued, left
<1>10. QED
    BY <1>4, <1>8, <1>9

\* Shares redeemed on what both fees leave.
Redeemed(d, shares, usdc) ==
    LET left == Equity - ManagementTaken - PerformanceTaken
    IN  /\ vault.created
        /\ EquityFits
        /\ shares \in Nat \ {0} /\ shares <= holding[d].shares
        /\ usdc \in Nat \ {0} /\ left > 0 /\ usdc * vault.total_shares <= shares * left
        /\ vault' = [vault EXCEPT !.total_shares = vault.total_shares - shares,
                                  !.last_fee_accrual = now,
                                  !.high_water_mark = MarkAfterFee(Equity - ManagementTaken)]
        /\ holding' = [holding EXCEPT ![d].shares = holding[d].shares - shares]
        /\ billed' = Billed(Equity, ManagementTaken, PerformanceTaken)
        /\ UNCHANGED <<venue_authorized, config, row_open, now, last_breach>>

LEMMA HeldShares ==
    ASSUME VInv, NEW d \in Accounts
    PROVE  holding[d].shares \in Nat /\ holding[d].shares <= vault.total_shares
<1> DEFINE f == [a \in Accounts |-> holding[a].shares]
<1>1. Accounts = 1 .. NumAccounts /\ NumAccounts \in Nat
    BY VaultConstants
<1>2. f \in [1 .. NumAccounts -> Nat] /\ f[d] = holding[d].shares
    BY <1>1, VaultParts DEF Holdings
<1>3. vault.total_shares = SumTo(f, NumAccounts)
    BY DEF VInv, SharesAddUp
<1> HIDE DEF f
<1>4. f[d] <= SumTo(f, NumAccounts) /\ f[d] \in Nat
    BY <1>1, <1>2, SumBound
<1>5. QED
    BY <1>2, <1>3, <1>4

LEMMA WithdrawStep ==
    ASSUME VInv, NEW d \in Depositors, NEW shares \in Nat, Withdraw(d, shares)
    PROVE  \E usdc \in Nat :
              /\ RowMoves(Spendable(ledger, VaultRow) - ManagementTaken - PerformanceTaken - usdc)
              /\ Redeemed(d, shares, usdc)
<1> DEFINE left == Equity - ManagementTaken - PerformanceTaken
           usdc == UsdcFor(shares)
           once == Paid(ledger, VaultRow, vault.manager, ManagementTaken)
<1>1. /\ vault.created /\ EquityFits /\ shares > 0 /\ shares <= holding[d].shares
      /\ FeePayable(ledger, VaultRow, vault.manager, ManagementTaken)
      /\ FeePayable(once, VaultRow, vault.manager, PerformanceTaken)
      /\ usdc > 0
      /\ FeePayable(LedgerAfterFees, VaultRow, d, usdc)
    BY DEF Withdraw, WithdrawAllowed
<1>2. /\ ledger' = Paid(LedgerAfterFees, VaultRow, d, usdc)
      /\ UNCHANGED <<admin, engine_pool, market, position, vault_gate, venue_authorized,
                     config, row_open, now, last_breach>>
      /\ vault' = [vault EXCEPT !.total_shares = vault.total_shares - shares,
                                !.last_fee_accrual = now,
                                !.high_water_mark = MarkAfterFee(Equity - ManagementTaken)]
      /\ holding' = [holding EXCEPT ![d].shares = holding[d].shares - shares]
      /\ billed' = Billed(Equity, ManagementTaken, PerformanceTaken)
    BY DEF Withdraw
<1>3. /\ vault.manager \in Accounts /\ vault.manager # VaultRow
      /\ d \in Accounts /\ d # VaultRow /\ VaultRow \in Accounts
      /\ ledger \in Ledgers /\ vault_gate \in VaultGates
      /\ ManagementTaken \in Nat /\ PerformanceTaken \in Nat /\ left \in Nat
      /\ vault.total_shares \in Nat
    BY <1>1, VaultParts, VaultConstants, FeesOfVault
<1>4. holding[d].shares \in Nat /\ holding[d].shares <= vault.total_shares
    BY <1>3, HeldShares
<1>5. vault.total_shares \in Nat \ {0}
    BY <1>1, <1>3, <1>4
<1>6. usdc = (shares * left) \div vault.total_shares
    BY DEF UsdcFor
<1> HIDE DEF left
<1>7. usdc \in Nat \ {0} /\ usdc * vault.total_shares <= shares * left /\ left > 0
    <2>1. shares * left \in Nat
        BY <1>3
    <2>2. usdc \in Nat /\ usdc * vault.total_shares <= shares * left
        BY <1>5, <1>6, <2>1, FloorFacts
    <2>3. ASSUME left = 0 PROVE FALSE
        <3>1. usdc = 0 \div vault.total_shares
            BY <1>6, <2>3
        <3>2. QED
            BY <1>1, <1>5, <3>1, DivFacts
    <2>4. QED
        BY <1>1, <1>3, <2>2, <2>3
<1> HIDE DEF usdc
<1>8. /\ once \in Ledgers
      /\ TotalBalance(once) = TotalBalance(ledger)
      /\ TotalCollateral(once) = TotalCollateral(ledger)
      /\ Spendable(once, VaultRow) = Spendable(ledger, VaultRow) - ManagementTaken
    BY <1>1, <1>3, FeeFacts
<1>9. LedgerAfterFees = Paid(once, VaultRow, vault.manager, PerformanceTaken)
    BY DEF LedgerAfterFees
<1> HIDE DEF once
<1>10. /\ LedgerAfterFees \in Ledgers
       /\ TotalBalance(LedgerAfterFees) = TotalBalance(once)
       /\ TotalCollateral(LedgerAfterFees) = TotalCollateral(once)
       /\ Spendable(LedgerAfterFees, VaultRow) = Spendable(once, VaultRow) - PerformanceTaken
    BY <1>1, <1>3, <1>8, <1>9, FeeFacts
<1>11. /\ ledger' \in Ledgers
       /\ TotalBalance(ledger') = TotalBalance(LedgerAfterFees)
       /\ TotalCollateral(ledger') = TotalCollateral(LedgerAfterFees)
       /\ Spendable(ledger', VaultRow) = Spendable(LedgerAfterFees, VaultRow) - usdc
    BY <1>1, <1>2, <1>3, <1>7, <1>10, FeeFacts
<1>12. IInv'
    BY <1>2, <1>11, VaultParts, LedgerStep
<1>13. RowMoves(Spendable(ledger, VaultRow) - ManagementTaken - PerformanceTaken - usdc)
    BY <1>2, <1>8, <1>10, <1>11, <1>12 DEF RowMoves, LedgerKept
<1>14. Redeemed(d, shares, usdc)
    BY <1>1, <1>2, <1>7 DEF Redeemed, left
<1>15. QED
    BY <1>7, <1>13, <1>14

\* A management fee is within the rate on a worth for a stretch of time.
Within(fee, worth, bps, since, until) ==
    fee * (BPS * SECONDS_PER_YEAR) <= worth * bps * (until - since)

\* Fees up to the last accrual and a fee for the time since are within the
\* fee for all of the time on the best worth.
LEMMA AccrualsAddUp ==
    ASSUME NEW old \in Nat, NEW fee \in Nat, NEW bps \in Nat,
           NEW top \in Nat, NEW worth \in Nat, NEW best \in Nat, top <= best, worth <= best,
           NEW since \in Nat, NEW last \in Nat, NEW at \in Nat, since <= last, last <= at,
           Within(old, top, bps, since, last), Within(fee, worth, bps, last, at)
    PROVE  Within(old + fee, best, bps, since, at)
<1> DEFINE t == last - since
           u == at - last
           k == BPS * SECONDS_PER_YEAR
<1>1. t \in Nat /\ u \in Nat /\ t + u = at - since /\ k \in Nat
    <2>1. BPS \in Nat /\ SECONDS_PER_YEAR \in Nat
        BY VaultConstants
    <2>2. QED
        BY <2>1
<1>2. /\ old * k <= top * bps * t
      /\ fee * k <= worth * bps * u
      /\ Within(old + fee, best, bps, since, at) <=> (old + fee) * k <= best * bps * (at - since)
    BY DEF Within
<1> HIDE DEF t, u, k
<1>3. old * k <= top * bps * t /\ fee * k <= worth * bps * u
    BY <1>2
<1>4. top * bps * t <= best * bps * t /\ worth * bps * u <= best * bps * u
    <2> DEFINE bt == bps * t
               bu == bps * u
    <2>1. bt \in Nat /\ bu \in Nat
        BY <1>1
    <2>2. /\ top * bps * t = bt * top /\ best * bps * t = bt * best
          /\ worth * bps * u = bu * worth /\ best * bps * u = bu * best
        BY <1>1
    <2> HIDE DEF bt, bu
    <2>3. bt * top <= bt * best /\ bu * worth <= bu * best
        BY <2>1, ProductMonotone
    <2>4. QED
        BY <2>2, <2>3
<1>5. (old + fee) * k = old * k + fee * k
    BY <1>1
<1>6. best * bps * (t + u) = best * bps * t + best * bps * u
    BY <1>1
<1>7. /\ old * k \in Nat /\ fee * k \in Nat /\ top * bps * t \in Nat /\ worth * bps * u \in Nat
      /\ best * bps * t \in Nat /\ best * bps * u \in Nat
    BY <1>1
<1> DEFINE p == old * k
           q == fee * k
           p2 == top * bps * t
           q2 == worth * bps * u
           p3 == best * bps * t
           q3 == best * bps * u
<1>8. p <= p2 /\ q <= q2 /\ p2 <= p3 /\ q2 <= q3
    BY <1>3, <1>4
<1>9. p \in Nat /\ q \in Nat /\ p2 \in Nat /\ q2 \in Nat /\ p3 \in Nat /\ q3 \in Nat
    BY <1>7
<1>10. (old + fee) * k = p + q /\ best * bps * (t + u) = p3 + q3
    BY <1>5, <1>6
<1> HIDE DEF p, q, p2, q2, p3, q3
<1>11. p + q <= p3 + q3
    BY <1>8, <1>9
<1>12. QED
    BY <1>1, <1>2, <1>10, <1>11

LEMMA PaidWithin ==
    /\ billed.management \in Nat =>
          (PaidUpTo <=> Within(billed.management, billed.top_equity, vault.management_fee_bps,
                               billed.since, vault.last_fee_accrual))
    /\ billed'.management \in Nat =>
          (PaidUpTo' <=> Within(billed'.management, billed'.top_equity, vault'.management_fee_bps,
                                billed'.since, vault'.last_fee_accrual))
<1>1. BPS \in Nat /\ SECONDS_PER_YEAR \in Nat
    BY VaultConstants
<1>2. \A x \in Nat : x * BPS * SECONDS_PER_YEAR = x * (BPS * SECONDS_PER_YEAR)
    BY <1>1
<1>3. QED
    BY <1>2 DEF PaidUpTo, Within

\* The step of a depositor: one holding and the total change alike, all time
\* up to now is paid for, and the mark does not fall.
LEMMA HoldingStep ==
    ASSUME VInv, vault.created, EquityFits, IInv',
           NEW d \in Accounts, NEW held \in Nat, NEW stamp \in Nat, stamp <= now,
           NEW total \in Nat, total = vault.total_shares - holding[d].shares + held,
           NEW mark \in Nat, vault.high_water_mark <= mark,
           NEW performance \in Nat,
           performance > 0 => EquityPerShare(Equity - ManagementTaken, vault.total_shares) = mark,
           vault' = [vault EXCEPT !.total_shares = total, !.last_fee_accrual = now,
                                  !.high_water_mark = mark],
           holding' = [holding EXCEPT ![d] = [shares |-> held, deposit_timestamp |-> stamp]],
           billed' = Billed(Equity, ManagementTaken, performance),
           UNCHANGED <<position, venue_authorized, config, row_open, now, last_breach, changes>>
    PROVE  VInv'
<1>1. /\ vault \in VaultRecord /\ now \in Nat \ {0} /\ holding \in [Accounts -> Holdings]
      /\ billed \in Bills /\ VaultTyped /\ StampsPast /\ vault.total_shares \in Nat
    BY VaultParts DEF VInv
<1>2. /\ vault' \in VaultRecord
      /\ vault'.created /\ vault'.manager = vault.manager /\ vault'.paused = vault.paused
      /\ vault'.drawdown_paused_at = vault.drawdown_paused_at
      /\ vault'.open_markets = vault.open_markets
      /\ vault'.management_fee_bps = vault.management_fee_bps
      /\ vault'.total_shares = total /\ vault'.last_fee_accrual = now
      /\ vault'.high_water_mark = mark
    BY <1>1 DEF VaultRecord
<1>3. /\ holding' \in [Accounts -> Holdings]
      /\ \A a \in Accounts : holding'[a].deposit_timestamp
                                = IF a = d THEN stamp ELSE holding[a].deposit_timestamp
    <2>1. [shares |-> held, deposit_timestamp |-> stamp] \in Holdings
        BY DEF Holdings
    <2>2. QED
        BY <1>1, <2>1
<1> DEFINE best == Larger(billed.top_equity, Equity)
           charged == IF performance > 0
                      THEN EquityPerShare(Equity - ManagementTaken, vault.total_shares)
                      ELSE billed.charged_at
<1>4. /\ billed.since \in Nat /\ billed.management \in Nat /\ billed.top_equity \in Nat
      /\ billed.top_equity \in U64 /\ billed.charged_at \in Nat
    BY <1>1, LedgerAssumption DEF Bills, U64
<1>5. Equity \in Nat /\ Equity \in U64 /\ ManagementTaken \in Nat
    BY EquityFacts, FeesOfVault, LedgerAssumption DEF EquityFits, U64
<1>6. /\ best \in U64 /\ best \in Nat /\ billed.top_equity <= best /\ Equity <= best
    BY <1>4, <1>5 DEF Larger
<1>7. charged \in Nat /\ charged <= mark
    <2>1. billed.charged_at <= vault.high_water_mark /\ vault.high_water_mark \in Nat
        BY VaultParts DEF VInv, MarkCovers
    <2>2. billed.charged_at <= mark
        BY <1>4, <2>1
    <2>3. QED
        BY <1>4, <2>2
<1>8. billed' = [since |-> billed.since, management |-> billed.management + ManagementTaken,
                 top_equity |-> best, charged_at |-> charged]
    BY <1>1 DEF Billed, Bills
<1> HIDE DEF best, charged
<1>9. /\ billed' \in Bills /\ billed'.since = billed.since
      /\ billed'.management = billed.management + ManagementTaken
      /\ billed'.top_equity = best /\ billed'.charged_at = charged
    BY <1>4, <1>5, <1>6, <1>7, <1>8 DEF Bills
<1>10. VaultTyped'
    BY <1>1, <1>2, <1>3, <1>9 DEF VaultTyped
<1>11. StampsPast'
    <2>1. vault.drawdown_paused_at <= now /\ billed.since <= now
        BY <1>1, <1>4, VaultParts DEF StampsPast
    <2>2. \A a \in Accounts : holding'[a].deposit_timestamp <= now
        BY <1>1, <1>3 DEF StampsPast
    <2>3. QED
        BY <1>1, <1>2, <1>9, <2>1, <2>2 DEF StampsPast
<1>12. SharesAddUp'
    <2> DEFINE f == [a \in Accounts |-> holding[a].shares]
    <2>1. Accounts = 1 .. NumAccounts /\ NumAccounts \in Nat
        BY VaultConstants
    <2>2. f \in [1 .. NumAccounts -> Int] /\ f[d] = holding[d].shares /\ d \in 1 .. NumAccounts
        BY <1>1, <2>1 DEF Holdings
    <2>3. [a \in Accounts |-> holding'[a].shares] = [f EXCEPT ![d] = held]
        BY <1>1
    <2>4. vault.total_shares = SumTo(f, NumAccounts)
        BY DEF VInv, SharesAddUp
    <2> HIDE DEF f
    <2>5. SumTo([f EXCEPT ![d] = held], NumAccounts) = SumTo(f, NumAccounts) - f[d] + held
        <3>1. held \in Int
            OBVIOUS
        <3>2. QED
            BY <2>1, <2>2, <3>1, SumUpdate
    <2>6. QED
        BY <1>2, <2>2, <2>3, <2>4, <2>5 DEF SharesAddUp
<1>13. RegistryComplete'
    BY <1>2 DEF VInv, RegistryComplete
<1>14. PaidUpTo'
    <2>1. /\ BPS \in Nat /\ SECONDS_PER_YEAR \in Nat /\ vault.management_fee_bps \in Nat
          /\ vault.last_fee_accrual \in Nat /\ vault.last_fee_accrual <= now
          /\ billed.since <= vault.last_fee_accrual
        BY <1>1, VaultParts, VaultConstants DEF StampsPast
    <2>2. Within(billed.management, billed.top_equity, vault.management_fee_bps, billed.since,
                 vault.last_fee_accrual)
        BY <1>4, <2>1, PaidWithin DEF VInv
    <2> DEFINE due == Equity * vault.management_fee_bps * (now - vault.last_fee_accrual)
    <2>3. due \in Nat
        BY <1>1, <1>5, <2>1
    <2>4. ManagementTaken * (BPS * SECONDS_PER_YEAR) <= due
        <3>1. CASE ManagementTaken = 0
            BY <2>1, <2>3, <3>1
        <3>2. CASE ManagementTaken # 0
            <4>1. /\ ManagementTaken = ManagementFee(Equity) /\ vault.total_shares # 0
                BY <1>5, <3>2 DEF ManagementTaken, Taken, ManagementFee
            <4>2. ManagementTaken = due \div (BPS * SECONDS_PER_YEAR)
                BY <4>1 DEF ManagementFee
            <4>3. BPS * SECONDS_PER_YEAR \in Nat \ {0}
                <5>1. BPS \in Nat \ {0} /\ SECONDS_PER_YEAR \in Nat \ {0}
                    BY VaultConstants
                <5>2. QED
                    BY <5>1
            <4> HIDE DEF due
            <4>4. QED
                BY <2>3, <4>2, <4>3, FloorFacts
        <3>3. QED
            BY <3>1, <3>2
    <2>5. Within(ManagementTaken, Equity, vault.management_fee_bps, vault.last_fee_accrual, now)
        BY <2>4 DEF Within
    <2>6. Within(billed.management + ManagementTaken, best, vault.management_fee_bps,
                 billed.since, now)
        BY <1>1, <1>4, <1>5, <1>6, <2>1, <2>2, <2>5, AccrualsAddUp
    <2>7. billed'.management \in Nat /\ vault'.last_fee_accrual = now
        BY <1>2, <1>4, <1>5, <1>9
    <2>8. QED
        BY <1>2, <1>9, <2>6, <2>7, PaidWithin
<1>15. MarkCovers'
    BY <1>2, <1>7, <1>9 DEF MarkCovers
<1>16. NothingYet'
    BY <1>2 DEF NothingYet
<1>17. BreakerHolds'
    BY <1>2 DEF VInv, BreakerHolds, CooledDown
<1>18. QED
    BY <1>10, <1>11, <1>12, <1>13, <1>14, <1>15, <1>16, <1>17 DEF VInv

LEMMA DepositKeeps ==
    ASSUME VInv, NEW d \in Depositors, NEW amount \in U64, Deposit(d, amount), UNCHANGED changes
    PROVE  VInv' /\ LedgerKept
<1>1. RowMoves(Spendable(ledger, VaultRow) - ManagementTaken + amount)
    BY DepositStep
<1>2. PICK shares \in Nat : Issued(d, amount, shares)
    BY DepositStep
<1> DEFINE left == Equity - ManagementTaken
           held == holding[d].shares + shares
           total == vault.total_shares + shares
           mark == Larger(vault.high_water_mark, EquityPerShare(left + amount, total))
<1>3. d \in Accounts /\ left \in Nat /\ amount \in Nat /\ vault.total_shares \in Nat
      /\ vault.high_water_mark \in Nat /\ now \in Nat
    BY FeesOfVault, VaultParts, VaultConstants
<1>4. shares > 0
    BY <1>2 DEF Issued
<1>5. holding[d].shares \in Nat
    BY <1>3, HeldShares
<1>6. /\ held \in Nat /\ total \in Nat \ {0} /\ left + amount \in Nat
      /\ total = vault.total_shares - holding[d].shares + held
    BY <1>3, <1>4, <1>5
<1>7. /\ vault' = [vault EXCEPT !.total_shares = total, !.last_fee_accrual = now,
                                !.high_water_mark = mark]
      /\ holding' = [holding EXCEPT ![d] = [shares |-> held, deposit_timestamp |-> now]]
      /\ billed' = Billed(Equity, ManagementTaken, 0)
      /\ UNCHANGED <<venue_authorized, config, row_open, now, last_breach>>
      /\ vault.created /\ EquityFits
    BY <1>2 DEF Issued
<1> HIDE DEF left, held, total
<1>8. EquityPerShare(left + amount, total) \in Nat
    BY <1>6, PerShareFacts
<1>9. mark \in Nat /\ vault.high_water_mark <= mark
    BY <1>3, <1>8 DEF Larger
<1> HIDE DEF mark
<1>10. IInv' /\ UNCHANGED position /\ LedgerKept
    BY <1>1 DEF RowMoves
<1>11. PICK zero \in Nat : zero = 0
    OBVIOUS
<1>12. billed' = Billed(Equity, ManagementTaken, zero) /\ ~ zero > 0 /\ now <= now
    BY <1>3, <1>7, <1>11
<1>13. total \in Nat
    BY <1>6
<1>14. VInv'
    BY <1>3, <1>6, <1>7, <1>9, <1>10, <1>12, <1>13, HoldingStep, ZenonT(60)
<1>15. QED
    BY <1>10, <1>14

LEMMA WithdrawKeeps ==
    ASSUME VInv, NEW d \in Depositors, NEW shares \in Nat, Withdraw(d, shares), UNCHANGED changes
    PROVE  VInv' /\ LedgerKept
<1>1. PICK usdc \in Nat :
          /\ RowMoves(Spendable(ledger, VaultRow) - ManagementTaken - PerformanceTaken - usdc)
          /\ Redeemed(d, shares, usdc)
    BY WithdrawStep
<1> DEFINE left == Equity - ManagementTaken
           held == holding[d].shares - shares
           total == vault.total_shares - shares
           mark == MarkAfterFee(left)
           stamp == holding[d].deposit_timestamp
<1>2. d \in Accounts /\ left \in Nat /\ vault.total_shares \in Nat
      /\ vault.high_water_mark \in Nat /\ now \in Nat /\ PerformanceTaken \in Nat
      /\ holding \in [Accounts -> Holdings]
      /\ (PerformanceTaken > 0 => AtNewHigh(left))
    BY FeesOfVault, VaultParts, VaultConstants
<1>3. shares > 0 /\ shares <= holding[d].shares
    BY <1>1 DEF Redeemed
<1>4. holding[d].shares \in Nat /\ holding[d].shares <= vault.total_shares
    BY <1>2, HeldShares
<1>5. /\ held \in Nat /\ total \in Nat
      /\ total = vault.total_shares - holding[d].shares + held
    BY <1>2, <1>3, <1>4
<1>6. stamp \in Nat /\ stamp <= now
    BY <1>2 DEF VInv, StampsPast, Holdings
<1>7. holding' = [holding EXCEPT ![d] = [shares |-> held, deposit_timestamp |-> stamp]]
    <2>1. holding' = [holding EXCEPT ![d].shares = held]
        BY <1>1 DEF Redeemed
    <2>2. [holding[d] EXCEPT !.shares = held] = [shares |-> held, deposit_timestamp |-> stamp]
        BY <1>2 DEF Holdings
    <2>3. QED
        BY <2>1, <2>2
<1>8. /\ vault' = [vault EXCEPT !.total_shares = total, !.last_fee_accrual = now,
                                !.high_water_mark = mark]
      /\ billed' = Billed(Equity, ManagementTaken, PerformanceTaken)
      /\ UNCHANGED <<venue_authorized, config, row_open, now, last_breach>>
      /\ vault.created /\ EquityFits
    BY <1>1 DEF Redeemed
<1>9. /\ mark \in Nat /\ vault.high_water_mark <= mark
      /\ PerformanceTaken > 0 => EquityPerShare(left, vault.total_shares) = mark
    <2>1. CASE AtNewHigh(left)
        <3>1. vault.total_shares \in Nat \ {0}
            BY <1>2, <1>3, <1>4
        <3>2. EquityPerShare(left, vault.total_shares) \in Nat
            BY <1>2, <3>1, PerShareFacts
        <3>3. mark = EquityPerShare(left, vault.total_shares)
            BY <2>1 DEF MarkAfterFee
        <3>4. QED
            BY <1>2, <2>1, <3>2, <3>3 DEF AtNewHigh
    <2>2. CASE ~ AtNewHigh(left)
        BY <1>2, <2>2 DEF MarkAfterFee
    <2>3. QED
        BY <2>1, <2>2
<1>10. IInv' /\ UNCHANGED position /\ LedgerKept
    BY <1>1 DEF RowMoves
<1>11. PerformanceTaken > 0 => EquityPerShare(Equity - ManagementTaken, vault.total_shares) = mark
    BY <1>9
<1> HIDE DEF left, held, total, mark, stamp
<1>12. VInv'
    BY <1>2, <1>5, <1>6, <1>7, <1>8, <1>9, <1>10, <1>11, HoldingStep, ZenonT(60)
<1>13. QED
    BY <1>10, <1>12

--------------------------------------------------------------------------------
(* The manager, the owners and the market *)

LEMMA LaterIsLonger ==
    ASSUME NEW since \in Nat, NEW earlier \in Nat, NEW later \in Nat, NEW secs \in Nat,
           earlier <= later, earlier - since >= secs
    PROVE  later - since >= secs
OBVIOUS

\* Whether a breach is waited for does not depend on what is not written.
LEMMA BreakerStays ==
    ASSUME VInv, config'.drawdown_cooldown_secs \in CooldownChoices, now' \in Nat, now <= now',
           last_breach' = last_breach,
           vault.paused /\ vault.drawdown_paused_at = last_breach /\ last_breach > 0
               => \/ vault'.paused /\ vault'.drawdown_paused_at = last_breach
                  \/ CooledDown
    PROVE  BreakerHolds'
<1>1. now \in Nat /\ last_breach \in Nat /\ CooldownChoices \subseteq Nat
    BY VaultParts, VaultConstants DEF VInv, StampsPast
<1>2. CooledDown => CooledDown'
    <2>1. ASSUME NEW secs \in CooldownChoices, now - last_breach >= secs
          PROVE  now' - last_breach' >= secs
        <3>1. secs \in Nat /\ now' \in Nat /\ now <= now' /\ last_breach' = last_breach
            BY <1>1
        <3>2. now' - last_breach >= secs
            BY <1>1, <2>1, <3>1, LaterIsLonger
        <3>3. QED
            BY <3>1, <3>2, Zenon
    <2>2. QED
        BY <2>1 DEF CooledDown
<1>3. BreakerHolds
    BY DEF VInv
<1>4. QED
    BY <1>2, <1>3 DEF BreakerHolds

\* What a step may write that moves no shares and takes no fees.
VaultRest(v) ==
    /\ v \in VaultRecord
    /\ v.created = vault.created /\ v.manager = vault.manager
    /\ v.total_shares = vault.total_shares
    /\ v.management_fee_bps = vault.management_fee_bps
    /\ v.high_water_mark = vault.high_water_mark
    /\ v.last_fee_accrual = vault.last_fee_accrual

LEMMA SharesAlone ==
    ASSUME VInv, IInv', UNCHANGED <<holding, billed>>, VaultRest(vault'),
           vault.created \/ vault' = vault,
           venue_authorized' \in BOOLEAN, config' \in VaultConfig, row_open' \in BOOLEAN,
           changes' \in 0 .. MaxChanges, now' \in Now, now <= now',
           vault'.drawdown_paused_at <= now', last_breach' \in 0 .. now',
           RegistryComplete', BreakerHolds'
    PROVE  VInv'
<1>1. /\ vault \in VaultRecord /\ VaultTyped /\ StampsPast /\ holding \in [Accounts -> Holdings]
      /\ now \in Nat /\ now' \in Nat
    BY VaultParts, VaultConstants DEF VInv, Now
<1>2. VaultTyped'
    BY <1>1 DEF VaultTyped, VaultRest
<1>3. StampsPast'
    <2>1. vault.last_fee_accrual \in Nat /\ vault.last_fee_accrual <= now
        BY VaultParts
    <2>2. vault.last_fee_accrual <= now'
        BY <1>1, <2>1
    <2>3. \A a \in Accounts : holding[a].deposit_timestamp \in Nat
        BY <1>1 DEF Holdings
    <2>4. \A a \in Accounts : holding[a].deposit_timestamp <= now'
        BY <1>1, <2>3 DEF StampsPast
    <2>5. QED
        BY <1>1, <2>2, <2>4 DEF StampsPast, VaultRest
<1>4. SharesAddUp'
    BY DEF VInv, SharesAddUp, VaultRest
<1>5. PaidUpTo'
    BY DEF VInv, PaidUpTo, VaultRest
<1>6. MarkCovers'
    BY DEF VInv, MarkCovers, VaultRest
<1>7. NothingYet'
    BY DEF VInv, NothingYet, VaultRest
<1>8. QED
    BY <1>2, <1>3, <1>4, <1>5, <1>6, <1>7 DEF VInv

\* The step leaves the vault's account alone too.
LEMMA VaultAlone ==
    ASSUME VInv, IInv', UNCHANGED <<holding, billed, vault, last_breach>>,
           venue_authorized' \in BOOLEAN, config' \in VaultConfig, row_open' \in BOOLEAN,
           config'.drawdown_cooldown_secs \in CooldownChoices,
           changes' \in 0 .. MaxChanges, now' \in Now, now <= now',
           RegistryComplete'
    PROVE  VInv'
<1>1. /\ vault \in VaultRecord /\ StampsPast /\ now \in Nat /\ now' \in Nat
    BY VaultParts, VaultConstants DEF VInv, Now
<1>2. VaultRest(vault')
    BY <1>1 DEF VaultRest
<1>3. vault'.drawdown_paused_at <= now' /\ last_breach' \in 0 .. now'
    <2>1. vault.drawdown_paused_at \in Nat /\ vault.drawdown_paused_at <= now
          /\ last_breach \in 0 .. now
        BY <1>1 DEF VaultRecord, StampsPast
    <2>2. QED
        BY <1>1, <2>1
<1>4. BreakerHolds'
    BY <1>1, BreakerStays
<1>5. QED
    BY <1>2, <1>3, <1>4, SharesAlone

\* The engine's steps leave the program's variables alone.
Elsewhere == UNCHANGED <<venue_authorized, config, vault, row_open, holding, now, billed, last_breach>>

LEMMA EngineAlone ==
    ASSUME VInv, Elsewhere, IInv', RegistryComplete', changes' \in 0 .. MaxChanges
    PROVE  VInv'
<1>1. /\ venue_authorized \in BOOLEAN /\ config \in VaultConfig /\ row_open \in BOOLEAN
      /\ now \in Now /\ config.drawdown_cooldown_secs \in CooldownChoices
      /\ now <= now
    BY VaultParts DEF VInv, StampsPast, BreakerHolds
<1>2. QED
    BY <1>1, VaultAlone DEF Elsewhere

LEMMA CreateVaultKeeps ==
    ASSUME VInv, NEW manager \in Managers, NEW terms \in VaultTerms, CreateVault(manager, terms),
           UNCHANGED changes
    PROVE  VInv' /\ LedgerKept
<1>1. /\ vault = NoVault /\ billed = NoBills /\ ~ vault.created
    BY DEF CreateVault, VInv, NothingYet
<1>2. /\ vault' = Opened(manager, terms)
      /\ billed' = [billed EXCEPT !.since = now]
      /\ UNCHANGED <<vars, venue_authorized, config, row_open, holding, now, last_breach>>
      /\ terms.performance_fee_bps <= MAX_PERFORMANCE_FEE_BPS
      /\ terms.management_fee_bps <= MAX_MANAGEMENT_FEE_BPS
      /\ terms.max_drawdown_bps \in 1 .. MAX_DRAWDOWN_BPS
    BY DEF CreateVault
<1>3. terms \in TermsOfVault
    BY TradingVaultAssumption
<1>4. /\ terms.performance_fee_bps \in 0 .. MAX_PERFORMANCE_FEE_BPS
      /\ terms.management_fee_bps \in 0 .. MAX_MANAGEMENT_FEE_BPS
      /\ terms.max_drawdown_bps \in 0 .. MAX_DRAWDOWN_BPS
      /\ terms.deposit_cap \in U64 /\ terms.lockup_period_secs \in Nat
    BY <1>2, <1>3, VaultConstants DEF TermsOfVault
<1>5. vault' = [created |-> TRUE, manager |-> manager, paused |-> FALSE, total_shares |-> 0,
                performance_fee_bps |-> terms.performance_fee_bps,
                management_fee_bps |-> terms.management_fee_bps,
                high_water_mark |-> PRICE_PRECISION, last_fee_accrual |-> now,
                deposit_cap |-> terms.deposit_cap,
                lockup_period_secs |-> terms.lockup_period_secs,
                max_drawdown_bps |-> terms.max_drawdown_bps,
                drawdown_paused_at |-> 0, open_markets |-> {}]
    BY <1>2 DEF Opened, NoVault
<1>6. now \in Nat \ {0} /\ now \in Now /\ VaultTyped /\ StampsPast /\ PRICE_PRECISION \in Nat
    BY VaultParts, VaultConstants DEF VInv, StampsPast
<1>7. vault' \in VaultRecord
    BY <1>4, <1>5, <1>6 DEF VaultRecord
<1>8. billed' = [since |-> now, management |-> 0, top_equity |-> 0, charged_at |-> 0]
    BY <1>1, <1>2 DEF NoBills
<1>9. billed' \in Bills
    BY <1>6, <1>8, VaultConstants DEF Bills
<1>10. IInv'
    BY <1>2, VaultParts, NextIInv
<1>11. VaultTyped'
    BY <1>2, <1>5, <1>6, <1>7, <1>9 DEF VaultTyped
<1>12. StampsPast'
    BY <1>2, <1>5, <1>6, <1>8 DEF StampsPast
<1>13. SharesAddUp'
    <2>1. vault.total_shares = 0
        BY <1>1 DEF NoVault
    <2>2. QED
        BY <1>2, <1>5, <2>1 DEF VInv, SharesAddUp
<1>14. RegistryComplete'
    <2>1. vault.open_markets = {}
        BY <1>1 DEF NoVault
    <2>2. QED
        BY <1>2, <1>5, <2>1 DEF VInv, RegistryComplete, vars
<1>15. PaidUpTo'
    <2>1. /\ 0 * BPS * SECONDS_PER_YEAR = 0
          /\ 0 * terms.management_fee_bps * (now - now) = 0
        BY <1>4, <1>6, VaultConstants
    <2>2. QED
        BY <1>5, <1>8, <2>1 DEF PaidUpTo
<1>16. MarkCovers'
    BY <1>5, <1>6, <1>8 DEF MarkCovers
<1>17. NothingYet'
    BY <1>5 DEF NothingYet
<1>18. BreakerHolds'
    <2>1. vault.paused = FALSE
        BY <1>1 DEF NoVault
    <2>2. config.drawdown_cooldown_secs \in CooldownChoices /\ now <= now
        BY <1>6 DEF VInv, BreakerHolds
    <2>3. QED
        BY <1>2, <1>6, <2>1, <2>2, BreakerStays
<1>19. LedgerKept
    BY <1>2, VaultParts DEF LedgerKept, vars
<1>20. QED
    BY <1>10, <1>11, <1>12, <1>13, <1>14, <1>15, <1>16, <1>17, <1>18, <1>19 DEF VInv

LEMMA ManagerOpenKeeps ==
    ASSUME VInv, NEW manager \in Managers, NEW m \in Markets, NEW price \in Prices,
           NEW size_delta \in SizeDeltas, ManagerOpenPosition(manager, m, size_delta, price),
           UNCHANGED changes
    PROVE  VInv' /\ LedgerKept
<1>1. /\ vault.created /\ ~ vault.paused
      /\ UNCHANGED <<admin, engine_pool, vault_gate, venue_authorized, config, row_open,
                     holding, now, billed>>
    BY DEF ManagerOpenPosition
<1>2. /\ vault \in VaultRecord /\ VaultTyped /\ StampsPast /\ now \in Nat \ {0} /\ now \in Now
      /\ now <= now /\ changes \in 0 .. MaxChanges
      /\ config.drawdown_cooldown_secs \in CooldownChoices
    BY VaultParts DEF VInv, StampsPast, BreakerHolds
<1>3. CASE /\ vault' = [vault EXCEPT !.paused = TRUE, !.drawdown_paused_at = now]
           /\ last_breach' = now
           /\ UNCHANGED <<market, position, ledger>>
    <2>1. /\ VaultRest(vault') /\ vault'.paused /\ vault'.drawdown_paused_at = now
          /\ vault'.open_markets = vault.open_markets
        BY <1>2, <1>3 DEF VaultRest, VaultRecord
    <2>2. IInv'
        BY <1>1, <1>3, VaultParts, LedgerStep
    <2>3. RegistryComplete'
        BY <1>3, <2>1 DEF VInv, RegistryComplete
    <2>4. BreakerHolds'
        BY <1>1, <1>2, <1>3, <2>1 DEF BreakerHolds
    <2>5. last_breach' \in 0 .. now' /\ vault'.drawdown_paused_at <= now'
        BY <1>1, <1>2, <1>3, <2>1
    <2>6. VInv'
        BY <1>1, <1>2, <2>1, <2>2, <2>3, <2>4, <2>5, SharesAlone DEF VaultTyped
    <2>7. LedgerKept
        BY <1>3, VaultParts DEF LedgerKept
    <2>8. QED
        BY <2>6, <2>7
<1>4. CASE /\ LegAllowed(Books, tv, m, VaultRow, size_delta, price)
           /\ Becomes(Leg(Books, m, VaultRow, size_delta, price))
           /\ Registered(m)
           /\ UNCHANGED last_breach
    <2> DEFINE after == Leg(Books, m, VaultRow, size_delta, price)
    <2>1. /\ VaultRow \in Traders /\ size_delta \in Int /\ price \in U64
          /\ vault_gate \in VaultGates /\ Sound(Books)
        BY VaultParts, VaultConstants, SoundBooks, EngineAssumption
    <2>2. PICK p \in PositionRecord : LegDone(Books, after, m, VaultRow, p)
        BY <1>4, <2>1, LegStep
    <2> HIDE DEF after
    <2>3. Becomes(after)
        BY <1>4 DEF after
    <2>4. IInv' /\ LedgerKept
        BY <1>1, <2>1, <2>2, <2>3, VaultParts, CallStep
    <2>5. position' = [position EXCEPT ![m][VaultRow] = p]
        BY <2>2, <2>3 DEF LegDone, Becomes, Books
    <2>6. vault' = [vault EXCEPT !.open_markets = vault.open_markets \cup {m}]
        BY <1>4 DEF Registered
    <2>7. /\ VaultRest(vault') /\ vault'.paused = vault.paused
          /\ vault'.drawdown_paused_at = vault.drawdown_paused_at
          /\ vault'.open_markets = vault.open_markets \cup {m}
        BY <1>2, <2>6 DEF VaultRest, VaultRecord
    <2>8. RegistryComplete'
        <3>1. \A n \in Markets : n # m => position'[n] = position[n]
            BY <2>5, VaultParts DEF TypeOK
        <3>2. QED
            BY <2>7, <3>1 DEF VInv, RegistryComplete
    <2>9. BreakerHolds'
        BY <1>1, <1>2, <1>4, <2>7, BreakerStays
    <2>10. last_breach' \in 0 .. now' /\ vault'.drawdown_paused_at <= now'
        BY <1>1, <1>2, <1>4, <2>7 DEF StampsPast
    <2>11. VInv'
        BY <1>1, <1>2, <2>4, <2>7, <2>8, <2>9, <2>10, SharesAlone DEF VaultTyped
    <2>12. QED
        BY <2>4, <2>11
<1>5. QED
    BY <1>3, <1>4 DEF ManagerOpenPosition

\* A position of the vault that is emptied needs no place in the registry.
LEMMA EmptiedStaysRegistered ==
    ASSUME VInv, NEW m \in Markets, NEW p, p.size = 0 \/ m \in vault.open_markets,
           position' = [position EXCEPT ![m][VaultRow] = p], UNCHANGED vault
    PROVE  RegistryComplete'
<1>1. \A n \in Markets : n # m => position'[n] = position[n]
    BY VaultParts DEF TypeOK
<1>2. position'[m][VaultRow] = p
    BY VaultParts, VaultConstants DEF TypeOK
<1>3. QED
    BY <1>1, <1>2 DEF VInv, RegistryComplete

LEMMA ManagerCloseKeeps ==
    ASSUME VInv, NEW manager \in Managers, NEW m \in Markets, NEW price \in Prices,
           ManagerClosePosition(manager, m, price), UNCHANGED changes
    PROVE  VInv' /\ LedgerKept
<1>1. ClosePosition(tv, m, VaultRow, price) /\ Elsewhere
    BY DEF ManagerClosePosition, Elsewhere, tvars
<1>2. IInv /\ VaultRow \in Traders /\ price \in Nat /\ changes \in 0 .. MaxChanges
    BY VaultParts, VaultConstants, EngineAssumption, LedgerAssumption DEF U64
<1>3. IInv' /\ LedgerKept
    BY <1>1, <1>2, ClosePositionStep
<1>4. position' = [position EXCEPT ![m][VaultRow] = NoPosition]
    BY <1>1 DEF ClosePosition, Emptied
<1>5. RegistryComplete'
    BY <1>1, <1>4, EmptiedStaysRegistered, EmptyRecord DEF Elsewhere
<1>6. QED
    BY <1>1, <1>2, <1>3, <1>5, EngineAlone

LEMMA LiquidatedKeeps ==
    ASSUME VInv, NEW m \in Markets, NEW keeper \in Managers, VaultLiquidated(m, keeper),
           UNCHANGED changes
    PROVE  VInv' /\ LedgerKept
<1>1. PICK op \in Keys, insurance \in Accounts :
          LiquidatePosition(op, m, VaultRow, keeper, insurance)
    BY DEF VaultLiquidated
<1>2. Elsewhere
    BY DEF VaultLiquidated, Elsewhere, tvars
<1>3. IInv /\ VaultRow \in Traders /\ keeper \in Accounts /\ changes \in 0 .. MaxChanges
    BY VaultParts, VaultConstants
<1>4. IInv' /\ LedgerKept
    BY <1>1, <1>3, LiquidatePositionStep
<1>5. position' = [position EXCEPT ![m][VaultRow] = NoPosition]
    BY <1>1 DEF LiquidatePosition, Emptied
<1>6. RegistryComplete'
    BY <1>2, <1>5, EmptiedStaysRegistered, EmptyRecord DEF Elsewhere
<1>7. QED
    BY <1>2, <1>3, <1>4, <1>6, EngineAlone

\* A setting of the vault's own account.
LEMMA PausedStampStays ==
    ASSUME VInv, vault.created,
           NEW stops \in BOOLEAN, NEW stamp \in {0, vault.drawdown_paused_at},
           NEW cap \in U64, NEW lockup \in Nat,
           vault' = [vault EXCEPT !.paused = stops, !.drawdown_paused_at = stamp,
                                  !.deposit_cap = cap, !.lockup_period_secs = lockup],
           \/ stops = TRUE /\ stamp = vault.drawdown_paused_at
           \/ stops = vault.paused /\ stamp = vault.drawdown_paused_at
           \/ vault.drawdown_paused_at > 0
                 => now - vault.drawdown_paused_at >= config.drawdown_cooldown_secs,
           UNCHANGED <<vars, venue_authorized, config, row_open, holding, now, billed, last_breach>>,
           changes' \in 0 .. MaxChanges
    PROVE  VInv' /\ LedgerKept
<1>1. /\ vault \in VaultRecord /\ VaultTyped /\ StampsPast /\ now \in Nat \ {0} /\ now \in Now
      /\ now <= now /\ config.drawdown_cooldown_secs \in CooldownChoices
    BY VaultParts DEF VInv, StampsPast, BreakerHolds
<1>2. vault.drawdown_paused_at \in Nat /\ stamp \in Nat /\ stamp <= now /\ last_breach \in 0 .. now
    BY <1>1 DEF VaultRecord, StampsPast
<1>3. /\ VaultRest(vault') /\ vault'.paused = stops /\ vault'.drawdown_paused_at = stamp
      /\ vault'.open_markets = vault.open_markets
    BY <1>1, <1>2 DEF VaultRest, VaultRecord
<1>4. IInv' /\ LedgerKept
    <2>1. IInv'
        BY VaultParts, NextIInv
    <2>2. LedgerKept
        BY VaultParts DEF LedgerKept, vars
    <2>3. QED
        BY <2>1, <2>2
<1>5. RegistryComplete'
    BY <1>3 DEF VInv, RegistryComplete, vars
<1>6. BreakerHolds'
    <2>1. ASSUME vault.paused, vault.drawdown_paused_at = last_breach, last_breach > 0
          PROVE  \/ vault'.paused /\ vault'.drawdown_paused_at = last_breach
                 \/ CooledDown
        <3>1. CASE stamp = vault.drawdown_paused_at /\ (stops = TRUE \/ stops = vault.paused)
            BY <1>3, <2>1, <3>1
        <3>2. CASE now - vault.drawdown_paused_at >= config.drawdown_cooldown_secs
            BY <1>1, <2>1, <3>2 DEF CooledDown
        <3>3. QED
            BY <2>1, <3>1, <3>2
    <2>2. QED
        BY <1>1, <2>1, BreakerStays
<1>7. vault'.drawdown_paused_at <= now'
    BY <1>2, <1>3
<1>8. VInv'
    BY <1>1, <1>2, <1>3, <1>4, <1>5, <1>6, <1>7, SharesAlone DEF VaultTyped
<1>9. QED
    BY <1>4, <1>8

LEMMA UnpauseKeeps ==
    ASSUME VInv, NEW manager, UnpauseVault(manager), changes' \in 0 .. MaxChanges
    PROVE  VInv' /\ LedgerKept
<1> DEFINE stops == FALSE
           stamp == 0
           cap == vault.deposit_cap
           lockup == vault.lockup_period_secs
<1>1. cap \in U64 /\ lockup \in Nat /\ stops \in BOOLEAN /\ stamp \in {0, vault.drawdown_paused_at}
      /\ vault \in VaultRecord
    BY VaultParts DEF VaultRecord
<1>2. /\ vault.created
      /\ vault.drawdown_paused_at > 0
            => now - vault.drawdown_paused_at >= config.drawdown_cooldown_secs
      /\ UNCHANGED <<vars, venue_authorized, config, row_open, holding, now, billed, last_breach>>
    BY DEF UnpauseVault
<1>3. vault' = [vault EXCEPT !.paused = stops, !.drawdown_paused_at = stamp,
                            !.deposit_cap = cap, !.lockup_period_secs = lockup]
    BY <1>1 DEF UnpauseVault, VaultRecord
<1> HIDE DEF stops, stamp, cap, lockup
<1>4. QED
    BY <1>1, <1>2, <1>3, PausedStampStays

LEMMA LimitsKeep ==
    ASSUME VInv, NEW manager, NEW cap \in Caps, NEW lockup \in Cooldowns,
           UpdateVaultSafetyLimits(manager, cap, lockup), changes' \in 0 .. MaxChanges
    PROVE  VInv' /\ LedgerKept
<1> DEFINE stops == vault.paused
           stamp == vault.drawdown_paused_at
<1>1. cap \in U64 /\ lockup \in Nat /\ stops \in BOOLEAN /\ stamp \in {0, vault.drawdown_paused_at}
      /\ vault \in VaultRecord
    BY VaultParts, VaultConstants DEF VaultRecord
<1>2. /\ vault.created
      /\ UNCHANGED <<vars, venue_authorized, config, row_open, holding, now, billed, last_breach>>
    BY DEF UpdateVaultSafetyLimits
<1>3. vault' = [vault EXCEPT !.paused = stops, !.drawdown_paused_at = stamp,
                            !.deposit_cap = cap, !.lockup_period_secs = lockup]
    BY <1>1 DEF UpdateVaultSafetyLimits, VaultRecord
<1>4. stops = vault.paused /\ stamp = vault.drawdown_paused_at
    OBVIOUS
<1> HIDE DEF stops, stamp
<1>5. QED
    BY <1>1, <1>2, <1>3, <1>4, PausedStampStays

LEMMA EmergencyPauseKeeps ==
    ASSUME VInv, NEW key, EmergencyPause(key), changes' \in 0 .. MaxChanges
    PROVE  VInv' /\ LedgerKept
<1> DEFINE stops == TRUE
           stamp == vault.drawdown_paused_at
           cap == vault.deposit_cap
           lockup == vault.lockup_period_secs
<1>1. cap \in U64 /\ lockup \in Nat /\ stops \in BOOLEAN /\ stamp \in {0, vault.drawdown_paused_at}
      /\ vault \in VaultRecord
    BY VaultParts DEF VaultRecord
<1>2. /\ vault.created
      /\ UNCHANGED <<vars, venue_authorized, config, row_open, holding, now, billed, last_breach>>
    BY DEF EmergencyPause
<1>3. vault' = [vault EXCEPT !.paused = stops, !.drawdown_paused_at = stamp,
                            !.deposit_cap = cap, !.lockup_period_secs = lockup]
    BY <1>1 DEF EmergencyPause, VaultRecord
<1>4. stops = TRUE /\ stamp = vault.drawdown_paused_at
    OBVIOUS
<1> HIDE DEF stops, stamp, cap, lockup
<1>5. QED
    BY <1>1, <1>2, <1>3, <1>4, PausedStampStays

\* What the owners of the programs write elsewhere.
LEMMA VaultOwnersWrite ==
    ASSUME VInv,
           \/ \E key \in VaultOwners :
                 \/ \E secs \in Cooldowns : SetDrawdownCooldown(key, secs)
                 \/ \E operator \in VaultOwners, status \in BOOLEAN :
                       SetVaultOperator(key, operator, status)
                 \/ \E new_owner \in VaultOwners : TransferVaults(key, new_owner)
                 \/ AcceptVaults(key)
           \/ \E status \in BOOLEAN : AuthorizeVenue(status)
           \/ InitVaultBalance,
           changes' \in 0 .. MaxChanges
    PROVE  VInv' /\ LedgerKept
<1>1. /\ config \in VaultConfig /\ config.drawdown_cooldown_secs \in CooldownChoices
      /\ venue_authorized \in BOOLEAN /\ row_open \in BOOLEAN
    BY VaultParts DEF VInv, BreakerHolds
<1>2. Cooldowns \subseteq Nat /\ Cooldowns \subseteq CooldownChoices
    BY VaultConstants DEF CooldownChoices
<1>3. /\ UNCHANGED <<vars, vault, holding, now, billed, last_breach>>
      /\ venue_authorized' \in BOOLEAN /\ config' \in VaultConfig /\ row_open' \in BOOLEAN
      /\ config'.drawdown_cooldown_secs \in CooldownChoices
    <2>1. CASE \E key \in VaultOwners, secs \in Cooldowns : SetDrawdownCooldown(key, secs)
        BY <1>1, <1>2, <2>1 DEF SetDrawdownCooldown, ConfigBecomes, VaultConfig
    <2>2. CASE \E key \in VaultOwners, operator \in VaultOwners, status \in BOOLEAN :
                  SetVaultOperator(key, operator, status)
        <3>1. PICK key \in VaultOwners, operator \in VaultOwners, status \in BOOLEAN :
                 SetVaultOperator(key, operator, status)
            BY <2>2
        <3> DEFINE ops == IF status THEN config.operators \cup {operator}
                          ELSE config.operators \ {operator}
        <3>2. config' = [config EXCEPT !.operators = ops]
            BY <3>1 DEF SetVaultOperator, ConfigBecomes
        <3>3. ops \in SUBSET VaultOwners
            BY <1>1 DEF VaultConfig
        <3> HIDE DEF ops
        <3>4. config' \in VaultConfig /\ config'.drawdown_cooldown_secs = config.drawdown_cooldown_secs
            BY <1>1, <3>2, <3>3 DEF VaultConfig
        <3>5. QED
            BY <1>1, <3>1, <3>4 DEF SetVaultOperator, ConfigBecomes
    <2>3. CASE \E key \in VaultOwners, new_owner \in VaultOwners : TransferVaults(key, new_owner)
        BY <1>1, <2>3 DEF TransferVaults, ConfigBecomes, VaultConfig
    <2>4. CASE \E key \in VaultOwners : AcceptVaults(key)
        BY <1>1, <2>4 DEF AcceptVaults, ConfigBecomes, VaultConfig
    <2>5. CASE \E status \in BOOLEAN : AuthorizeVenue(status)
        BY <1>1, <2>5 DEF AuthorizeVenue, tvars
    <2>6. CASE InitVaultBalance
        BY <1>1, <2>6 DEF InitVaultBalance
    <2>7. QED
        BY <2>1, <2>2, <2>3, <2>4, <2>5, <2>6
<1>4. IInv' /\ LedgerKept /\ RegistryComplete'
    <2>1. IInv'
        BY <1>3, VaultParts, NextIInv
    <2>2. LedgerKept
        BY <1>3, VaultParts DEF LedgerKept, vars
    <2>3. RegistryComplete'
        BY <1>3 DEF VInv, RegistryComplete, vars
    <2>4. QED
        BY <2>1, <2>2, <2>3
<1>5. now' \in Now /\ now <= now'
    BY <1>3, VaultParts DEF VInv, StampsPast
<1>6. QED
    BY <1>3, <1>4, <1>5, VaultAlone

LEMMA MarketKeeps ==
    ASSUME VInv, changes' \in 0 .. MaxChanges,
           \/ \E m \in Markets, params \in MarketParams : Listed(m, params)
           \/ \E m \in Markets, price \in Prices : VaultRepriced(m, price)
    PROVE  VInv' /\ LedgerKept
<1>1. IInv /\ Prices \subseteq U64
    BY VaultParts, EngineAssumption
<1>2. Elsewhere /\ IInv' /\ UNCHANGED <<position, ledger>>
    <2>1. CASE \E m \in Markets, params \in MarketParams : Listed(m, params)
        <3>1. PICK m \in Markets, params \in MarketParams, key \in Keys : AddMarket(key, m, params)
            BY <2>1 DEF Listed
        <3>2. IInv'
            BY <1>1, <3>1, AddMarketStep
        <3>3. QED
            BY <2>1, <3>1, <3>2 DEF Listed, AddMarket, Elsewhere, tvars
    <2>2. CASE \E m \in Markets, price \in Prices : VaultRepriced(m, price)
        <3>1. PICK m \in Markets, price \in Prices, op \in Keys : UpdateMarkPrice(op, m, price)
            BY <2>2 DEF VaultRepriced
        <3>2. IInv'
            BY <1>1, <3>1, UpdateMarkPriceStep
        <3>3. QED
            BY <2>2, <3>1, <3>2 DEF VaultRepriced, UpdateMarkPrice, Elsewhere, tvars
    <2>3. QED
        BY <2>1, <2>2
<1>3. RegistryComplete' /\ LedgerKept
    BY <1>2, VaultParts DEF VInv, RegistryComplete, Elsewhere, LedgerKept
<1>4. QED
    BY <1>2, <1>3, EngineAlone

LEMMA VaultTickKeeps ==
    ASSUME VInv, VaultTick, UNCHANGED changes
    PROVE  VInv' /\ LedgerKept
<1>1. /\ now < LastTime /\ now' = now + 1
      /\ UNCHANGED <<vars, venue_authorized, config, vault, row_open, holding, billed, last_breach>>
    BY DEF VaultTick
<1>2. now \in Nat \ {0} /\ LastTime \in Nat
    BY VaultParts, VaultConstants
<1>3. now' \in Now /\ now <= now'
    BY <1>1, <1>2 DEF Now
<1>4. /\ venue_authorized \in BOOLEAN /\ config \in VaultConfig /\ row_open \in BOOLEAN
      /\ config.drawdown_cooldown_secs \in CooldownChoices /\ changes \in 0 .. MaxChanges
    BY VaultParts DEF VInv, BreakerHolds
<1>5. IInv' /\ LedgerKept /\ RegistryComplete'
    <2>1. IInv'
        BY <1>1, VaultParts, NextIInv
    <2>2. LedgerKept
        BY <1>1, VaultParts DEF LedgerKept, vars
    <2>3. RegistryComplete'
        BY <1>1 DEF VInv, RegistryComplete, vars
    <2>4. QED
        BY <2>1, <2>2, <2>3
<1>6. QED
    BY <1>1, <1>3, <1>4, <1>5, VaultAlone

LEMMA SettingsKeep ==
    ASSUME VInv, SettingsStep, changes' \in 0 .. MaxChanges
    PROVE  VInv' /\ LedgerKept
<1>1. CASE \E manager \in Managers, cap \in Caps, lockup \in Cooldowns :
              UpdateVaultSafetyLimits(manager, cap, lockup)
    BY <1>1, LimitsKeep
<1>2. CASE \E key \in VaultOwners : EmergencyPause(key)
    BY <1>2, EmergencyPauseKeeps
<1>3. CASE \/ \E key \in VaultOwners :
                 \/ \E secs \in Cooldowns : SetDrawdownCooldown(key, secs)
                 \/ \E operator \in VaultOwners, status \in BOOLEAN :
                       SetVaultOperator(key, operator, status)
                 \/ \E new_owner \in VaultOwners : TransferVaults(key, new_owner)
           \/ \E status \in BOOLEAN : AuthorizeVenue(status)
    BY <1>3, VaultOwnersWrite
<1>4. CASE \E m \in Markets, params \in MarketParams : Listed(m, params)
    BY <1>4, MarketKeeps
<1>5. QED
    BY <1>1, <1>2, <1>3, <1>4 DEF SettingsStep

LEMMA VaultNextKeeps ==
    ASSUME VInv, [VaultNext]_allvars
    PROVE  VInv' /\ LedgerKept
<1>1. changes \in 0 .. MaxChanges /\ MaxChanges \in Nat
    BY VaultParts, VaultConstants
<1>2. CASE UNCHANGED allvars
    <2>1. Elsewhere /\ UNCHANGED <<vars, changes>>
        BY <1>2 DEF allvars, tvars, Elsewhere
    <2>2. IInv'
        BY <2>1, VaultParts, NextIInv
    <2>3. LedgerKept /\ RegistryComplete'
        BY <2>1, VaultParts DEF VInv, RegistryComplete, Elsewhere, LedgerKept, vars
    <2>4. QED
        BY <1>1, <2>1, <2>2, <2>3, EngineAlone
<1>3. CASE DepositorStep /\ UNCHANGED changes
    <2>1. Amounts \subseteq U64 /\ Redemptions \subseteq Nat
        BY VaultConstants
    <2>2. CASE \E d \in Depositors, amount \in Amounts : Deposit(d, amount)
        BY <1>3, <2>1, <2>2, DepositKeeps
    <2>3. CASE \E d \in Depositors, shares \in Redemptions : Withdraw(d, shares)
        BY <1>3, <2>1, <2>3, WithdrawKeeps
    <2>4. QED
        BY <1>3, <2>2, <2>3 DEF DepositorStep
<1>4. CASE ManagerStep /\ UNCHANGED changes
    <2>1. changes' \in 0 .. MaxChanges
        BY <1>1, <1>4
    <2>2. CASE \E manager \in Managers, terms \in VaultTerms : CreateVault(manager, terms)
        BY <1>4, <2>2, CreateVaultKeeps
    <2>3. CASE \E manager \in Managers, m \in Markets, price \in Prices, size_delta \in SizeDeltas :
                  ManagerOpenPosition(manager, m, size_delta, price)
        BY <1>4, <2>3, ManagerOpenKeeps
    <2>4. CASE \E manager \in Managers, m \in Markets, price \in Prices :
                  ManagerClosePosition(manager, m, price)
        BY <1>4, <2>4, ManagerCloseKeeps
    <2>5. CASE \E manager \in Managers : UnpauseVault(manager)
        BY <2>1, <2>5, UnpauseKeeps
    <2>6. QED
        BY <1>4, <2>2, <2>3, <2>4, <2>5 DEF ManagerStep
<1>5. CASE OutsideStep /\ UNCHANGED changes
    <2>1. CASE \E m \in Markets, price \in Prices : VaultRepriced(m, price)
        BY <1>1, <1>5, <2>1, MarketKeeps
    <2>2. CASE \E m \in Markets, keeper \in Managers : VaultLiquidated(m, keeper)
        BY <1>5, <2>2, LiquidatedKeeps
    <2>3. QED
        BY <1>5, <2>1, <2>2 DEF OutsideStep
<1>6. CASE VaultTick /\ UNCHANGED changes
    BY <1>6, VaultTickKeeps
<1>7. CASE /\ InitVaultBalance \/ \E key \in VaultOwners : AcceptVaults(key)
           /\ UNCHANGED changes
    BY <1>1, <1>7, VaultOwnersWrite
<1>8. CASE SettingsStep /\ changes < MaxChanges /\ changes' = changes + 1
    <2>1. changes' \in 0 .. MaxChanges
        BY <1>1, <1>8
    <2>2. QED
        BY <1>8, <2>1, SettingsKeep
<1>9. QED
    BY <1>2, <1>3, <1>4, <1>5, <1>6, <1>7, <1>8 DEF VaultNext

LEMMA InitVInv ==
    ASSUME IInv, \A m \in Markets : position[m][VaultRow].size = 0, VaultInit
    PROVE  VInv
<1>1. /\ venue_authorized = TRUE /\ vault = NoVault /\ row_open = FALSE
      /\ holding = [a \in Accounts |-> NoHolding]
      /\ now = 1 /\ billed = NoBills /\ last_breach = 0 /\ changes = 0
    BY DEF VaultInit, NoBills
<1>2. PICK key \in VaultOwners :
          config = [owner |-> key, pending_owner |-> NoKey,
                    drawdown_cooldown_secs |-> DEFAULT_DRAWDOWN_COOLDOWN_SECS, operators |-> {}]
    BY DEF VaultInit
<1>3. vault = [created |-> FALSE, manager |-> NoAccount, paused |-> FALSE, total_shares |-> 0,
               performance_fee_bps |-> 0, management_fee_bps |-> 0, high_water_mark |-> 0,
               last_fee_accrual |-> 0, deposit_cap |-> 0, lockup_period_secs |-> 0,
               max_drawdown_bps |-> 0, drawdown_paused_at |-> 0, open_markets |-> {}]
    BY <1>1 DEF NoVault
<1>4. VaultTyped
    <2>1. vault \in VaultRecord
        BY <1>3, VaultConstants DEF VaultRecord
    <2>2. config \in VaultConfig
        BY <1>2, VaultConstants DEF VaultConfig
    <2>3. holding \in [Accounts -> Holdings]
        BY <1>1 DEF Holdings, NoHolding
    <2>4. billed \in Bills
        BY <1>1, VaultConstants DEF Bills, NoBills
    <2>5. changes \in 0 .. MaxChanges
        BY <1>1, VaultConstants
    <2>6. venue_authorized \in BOOLEAN
        BY Zenon DEF VaultInit
    <2>7. row_open \in BOOLEAN
        BY Zenon DEF VaultInit
    <2>8. ~ vault.created
        BY <1>3
    <2>9. QED
        BY <2>1, <2>2, <2>3, <2>4, <2>5, <2>6, <2>7, <2>8 DEF VaultTyped
<1>5. StampsPast
    <2>1. now \in Now
        BY <1>1, VaultConstants DEF Now
    <2>2. QED
        BY <1>1, <1>3, <2>1 DEF StampsPast, NoBills, NoHolding
<1>6. SharesAddUp
    <2> DEFINE f == [a \in Accounts |-> holding[a].shares]
    <2>1. f = [a \in 1 .. NumAccounts |-> 0] /\ NumAccounts \in Nat
        BY <1>1, VaultConstants DEF NoHolding
    <2> HIDE DEF f
    <2>2. f \in [1 .. NumAccounts -> Int] /\ \A i \in 1 .. NumAccounts : f[i] = 0
        BY <2>1
    <2>3. SumTo(f, NumAccounts) = 0
        BY <2>1, <2>2, SumZero
    <2>4. QED
        BY <1>3, <2>3 DEF SharesAddUp, f
<1>7. RegistryComplete
    BY DEF RegistryComplete
<1>8. PaidUpTo
    <2>1. /\ 0 * BPS * SECONDS_PER_YEAR = 0 /\ 0 * 0 * (0 - 0) = 0
        BY VaultConstants
    <2>2. QED
        BY <1>1, <1>3, <2>1 DEF PaidUpTo, NoBills
<1>9. MarkCovers /\ NothingYet
    BY <1>1, <1>3 DEF MarkCovers, NothingYet, NoBills
<1>10. BreakerHolds
    BY <1>1, <1>2 DEF BreakerHolds, CooldownChoices
<1>11. QED
    BY <1>4, <1>5, <1>6, <1>7, <1>8, <1>9, <1>10 DEF VInv

LEMMA VaultInvariance == VaultOnAnyEngine => []VInv
<1>1. VInv /\ [VaultNext]_allvars => VInv'
    BY VaultNextKeeps
<1>2. IInv /\ (\A m \in Markets : position[m][VaultRow].size = 0) /\ VaultInit => VInv
    BY InitVInv
<1>3. QED
    BY <1>1, <1>2, PTL DEF VaultOnAnyEngine

\* A run of the program deployed on a new engine starts in no other state.
LEMMA DeployedVInv == VaultSpec => VaultOnAnyEngine
<1>1. ASSUME NEW listed \in SUBSET Markets, Deployed(listed)
      PROVE  IInv /\ \A m \in Markets : position[m][VaultRow].size = 0
    <2>1. IInv
        BY <1>1, DeployedIInv
    <2>2. position = [m \in Markets |-> [t \in Traders |-> NoPosition]] /\ VaultRow \in Traders
        BY <1>1, VaultConstants DEF Deployed
    <2>3. QED
        BY <2>1, <2>2, EmptyRecord
<1>2. VaultStart => VaultInit /\ IInv /\ \A m \in Markets : position[m][VaultRow].size = 0
    BY <1>1 DEF VaultStart
<1>3. QED
    BY <1>2, PTL DEF VaultSpec, VaultOnAnyEngine

--------------------------------------------------------------------------------
(* What the program promises depositors and manager *)

LEMMA BooksOfVInv == VInv => TradingVaultInv
<1> SUFFICES ASSUME VInv PROVE TradingVaultInv
    OBVIOUS
<1>1. VaultTypeOK
    <2>1. TypeOK /\ VaultTyped /\ StampsPast /\ now \in Nat
        BY VaultParts DEF VInv
    <2>2. vault \in [created : BOOLEAN, manager : Managers \cup {NoAccount}, paused : BOOLEAN,
                     total_shares : Nat, performance_fee_bps : 0 .. MAX_PERFORMANCE_FEE_BPS,
                     management_fee_bps : 0 .. MAX_MANAGEMENT_FEE_BPS, high_water_mark : Nat,
                     last_fee_accrual : 0 .. now, deposit_cap : U64, lockup_period_secs : Nat,
                     max_drawdown_bps : 0 .. MAX_DRAWDOWN_BPS, drawdown_paused_at : 0 .. now,
                     open_markets : SUBSET Markets]
        BY <2>1 DEF VaultTyped, VaultRecord, StampsPast
    <2>3. \A a \in Accounts : holding[a] \in [shares : Nat, deposit_timestamp : 0 .. now]
        BY <2>1 DEF VaultTyped, Holdings, StampsPast
    <2>4. holding \in [Accounts -> [shares : Nat, deposit_timestamp : 0 .. now]]
        BY <2>1, <2>3 DEF VaultTyped
    <2>5. billed \in [since : 0 .. now, management : Nat, top_equity : U64, charged_at : Nat]
        <3>1. billed.since \in Nat /\ vault.last_fee_accrual \in Nat
            BY <2>1, VaultParts DEF Bills
        <3>2. billed.since \in 0 .. now
            BY <2>1, <3>1 DEF StampsPast
        <3>3. QED
            BY <2>1, <3>2 DEF VaultTyped, Bills
    <2>6. QED
        BY <2>1, <2>2, <2>4, <2>5 DEF VaultTypeOK, VaultTyped, StampsPast, VaultConfig, Now
<1>2. ChargedOnce
    <2> DEFINE t == vault.last_fee_accrual - billed.since
               u == now - billed.since
               rate == billed.top_equity * vault.management_fee_bps
    <2>1. /\ billed.since \in Nat /\ billed.top_equity \in Nat /\ vault.management_fee_bps \in Nat
          /\ vault.last_fee_accrual \in Nat /\ now \in Nat
          /\ billed.since <= vault.last_fee_accrual /\ vault.last_fee_accrual <= now
          /\ billed.management \in Nat
        BY VaultParts, VaultConstants DEF VInv, StampsPast, Bills
    <2>2. t \in Nat /\ u \in Nat /\ t <= u /\ rate \in Nat
        BY <2>1
    <2> DEFINE left == billed.management * BPS * SECONDS_PER_YEAR
    <2>3. left \in Nat /\ left <= rate * t
        <3>1. BPS \in Nat /\ SECONDS_PER_YEAR \in Nat
            BY VaultConstants
        <3>2. left \in Nat
            BY <2>1, <3>1
        <3>3. left <= rate * t
            BY DEF VInv, PaidUpTo
        <3>4. QED
            BY <3>2, <3>3
    <2> HIDE DEF t, u, rate, left
    <2>4. rate * t <= rate * u /\ rate * t \in Nat /\ rate * u \in Nat
        BY <2>2, ProductMonotone
    <2>5. left <= rate * u
        BY <2>3, <2>4
    <2>6. QED
        BY <2>5 DEF ChargedOnce, left, rate, u
<1>3. QED
    BY <1>1, <1>2 DEF TradingVaultInv, VInv

\* The books of a vault: no share is without its part of the total, no
\* position is outside of the registry, and no stretch of time is charged
\* twice, on any engine and through any history of fees, pauses and
\* liquidations (accrue_management_fee, issue and redemption of shares).
THEOREM VaultBooksKept == VaultOnAnyEngine => []TradingVaultInv
BY VaultInvariance, BooksOfVInv, PTL

\* What no step but a depositor's changes.
OtherStep ==
    /\ vault'.total_shares \in {0, vault.total_shares}
    /\ billed'.charged_at = billed.charged_at
    /\ \/ ~ vault.paused
       \/ position' = position
       \/ \E m \in Markets : position' = [position EXCEPT ![m][VaultRow] = NoPosition]

LEMMA StepsOfVault ==
    ASSUME VInv, [VaultNext]_allvars
    PROVE  \/ \E d \in Depositors, amount \in U64 : Deposit(d, amount)
           \/ \E d \in Depositors, shares \in Nat : Withdraw(d, shares)
           \/ OtherStep
<1>1. vault \in VaultRecord /\ billed \in Bills /\ Amounts \subseteq U64 /\ Redemptions \subseteq Nat
    BY VaultParts, VaultConstants
<1>2. CASE DepositorStep
    <2>1. PICK d \in Depositors : \/ \E amount \in Amounts : Deposit(d, amount)
                                  \/ \E shares \in Redemptions : Withdraw(d, shares)
        BY <1>2 DEF DepositorStep
    <2>2. QED
        BY <1>1, <2>1
<1>3. CASE UNCHANGED <<vault, billed, position>>
    BY <1>3 DEF OtherStep
<1>4. CASE ManagerStep
    <2>1. CASE \E manager \in Managers, terms \in VaultTerms : CreateVault(manager, terms)
        <3>1. PICK manager \in Managers, terms \in VaultTerms : CreateVault(manager, terms)
            BY <2>1
        <3>2. vault'.total_shares = 0
            BY <3>1 DEF CreateVault, Opened, NoVault
        <3>3. billed' = [billed EXCEPT !.since = now] /\ position' = position
            BY <3>1 DEF CreateVault, vars
        <3>4. QED
            BY <1>1, <3>2, <3>3 DEF OtherStep, Bills
    <2>2. CASE \E manager \in Managers, m \in Markets, price \in Prices, size_delta \in SizeDeltas :
                  ManagerOpenPosition(manager, m, size_delta, price)
        BY <1>1, <2>2 DEF ManagerOpenPosition, Registered, OtherStep, VaultRecord
    <2>3. CASE \E manager \in Managers, m \in Markets, price \in Prices :
                  ManagerClosePosition(manager, m, price)
        BY <2>3 DEF ManagerClosePosition, ClosePosition, Emptied, tvars, OtherStep
    <2>4. CASE \E manager \in Managers : UnpauseVault(manager)
        BY <1>1, <2>4 DEF UnpauseVault, OtherStep, VaultRecord, vars
    <2>5. QED
        BY <1>4, <2>1, <2>2, <2>3, <2>4 DEF ManagerStep
<1>5. CASE OutsideStep
    <2>1. CASE \E m \in Markets, price \in Prices : VaultRepriced(m, price)
        BY <1>3, <2>1 DEF VaultRepriced, UpdateMarkPrice, tvars
    <2>2. CASE \E m \in Markets, keeper \in Managers : VaultLiquidated(m, keeper)
        <3>1. PICK m \in Markets, keeper \in Managers : VaultLiquidated(m, keeper)
            BY <2>2
        <3>2. position' = [position EXCEPT ![m][VaultRow] = NoPosition]
            BY <3>1 DEF VaultLiquidated, LiquidatePosition, Emptied
        <3>3. UNCHANGED <<vault, billed>>
            BY <3>1 DEF VaultLiquidated, tvars
        <3>4. QED
            BY <3>2, <3>3 DEF OtherStep
    <2>3. QED
        BY <1>5, <2>1, <2>2 DEF OutsideStep
<1>6. CASE VaultTick \/ InitVaultBalance \/ \E key \in VaultOwners : AcceptVaults(key)
    BY <1>3, <1>6 DEF VaultTick, InitVaultBalance, AcceptVaults, ConfigBecomes, vars
<1>7. CASE SettingsStep
    <2>1. CASE \E manager \in Managers, cap \in Caps, lockup \in Cooldowns :
                  UpdateVaultSafetyLimits(manager, cap, lockup)
        BY <1>1, <2>1 DEF UpdateVaultSafetyLimits, OtherStep, VaultRecord, vars
    <2>2. CASE \E key \in VaultOwners : EmergencyPause(key)
        BY <1>1, <2>2 DEF EmergencyPause, OtherStep, VaultRecord, vars
    <2>3. CASE \/ \E key \in VaultOwners :
                     \/ \E secs \in Cooldowns : SetDrawdownCooldown(key, secs)
                     \/ \E operator \in VaultOwners, status \in BOOLEAN :
                           SetVaultOperator(key, operator, status)
                     \/ \E new_owner \in VaultOwners : TransferVaults(key, new_owner)
               \/ \E status \in BOOLEAN : AuthorizeVenue(status)
        BY <1>3, <2>3 DEF SetDrawdownCooldown, SetVaultOperator, TransferVaults, ConfigBecomes,
                          AuthorizeVenue, vars, tvars
    <2>4. CASE \E m \in Markets, params \in MarketParams : Listed(m, params)
        BY <1>3, <2>4 DEF Listed, AddMarket, tvars
    <2>5. QED
        BY <1>7, <2>1, <2>2, <2>3, <2>4 DEF SettingsStep
<1>8. CASE UNCHANGED allvars
    BY <1>3, <1>8 DEF allvars, tvars, vars
<1>9. QED
    BY <1>2, <1>4, <1>5, <1>6, <1>7, <1>8 DEF VaultNext

\* What the row of the vault gains or loses, all of the vault does.
LEMMA WorthMoves ==
    ASSUME VInv, NEW left \in Int, RowMoves(left)
    PROVE  Worth' = Worth - Spendable(ledger, VaultRow) + left
<1>1. [m \in Markets |-> ValueIn(m)]' = [m \in Markets |-> ValueIn(m)]
    BY DEF RowMoves, ValueIn
<1>2. Worth' = Spendable(ledger', VaultRow) + SumTo(Values, NumMarkets)
    BY <1>1 DEF Worth, Values
<1>3. Worth = Spendable(ledger, VaultRow) + SumTo(Values, NumMarkets)
    BY DEF Worth, Values
<1>4. SumTo(Values, NumMarkets) \in Int /\ Spendable(ledger, VaultRow) \in Nat
    <2>1. \A m \in Markets : ValueIn(m) \in Int
        BY ValueFacts
    <2>2. Values \in [1 .. NumMarkets -> Int]
        BY <2>1, VaultConstants DEF Values
    <2>3. QED
        BY <2>2, VaultConstants, SumType, EquityFacts
<1>5. QED
    BY <1>2, <1>3, <1>4 DEF RowMoves

LEMMA DepositIsFair ==
    ASSUME VInv, NEW d \in Depositors, NEW amount \in U64, Deposit(d, amount),
           vault.total_shares > 0
    PROVE  /\ vault'.total_shares > vault.total_shares
           /\ Worth' * vault.total_shares >= (Worth - ManagementTaken) * vault'.total_shares
<1> DEFINE left == Equity - ManagementTaken
           total == vault.total_shares
<1>1. PICK shares \in Nat : Issued(d, amount, shares)
    BY DepositStep
<1>2. RowMoves(Spendable(ledger, VaultRow) - ManagementTaken + amount)
    BY DepositStep
<1>3. /\ left \in Nat /\ left > 0 /\ ManagementTaken \in Nat /\ Equity \in Nat
      /\ shares \in Nat \ {0} /\ shares * left <= amount * total
      /\ total \in Nat /\ total > 0 /\ amount \in Nat
      /\ Spendable(ledger, VaultRow) \in Nat /\ Worth \in Int
    BY <1>1, FeesOfVault, EquityFacts, VaultParts, VaultConstants DEF Issued
<1>4. Worth = Equity
    <2>1. Equity > 0
        BY <1>3
    <2>2. QED
        BY <2>1, EquityFacts
<1>5. Worth' = left + amount
    <2>1. Spendable(ledger, VaultRow) - ManagementTaken + amount \in Int
        BY <1>3
    <2>2. Worth' = Worth - Spendable(ledger, VaultRow)
                        + (Spendable(ledger, VaultRow) - ManagementTaken + amount)
        BY <1>2, <2>1, WorthMoves
    <2>3. QED
        BY <1>3, <1>4, <2>2
<1>6. vault'.total_shares = total + shares
    BY <1>1, VaultParts DEF Issued, VaultRecord
<1>7. Worth - ManagementTaken = left
    BY <1>4
<1> HIDE DEF left, total
<1>8. (left + amount) * total >= left * (total + shares)
    BY <1>3, IssueIsFair
<1>9. vault'.total_shares > total
    BY <1>3, <1>6
<1>10. QED
    BY <1>5, <1>6, <1>7, <1>8, <1>9 DEF total

LEMMA WithdrawalIsFair ==
    ASSUME VInv, NEW d \in Depositors, NEW shares \in Nat, Withdraw(d, shares)
    PROVE  /\ ~ vault'.total_shares > vault.total_shares
           /\ Worth' * vault.total_shares
                 >= (Worth - (ManagementTaken + PerformanceTaken)) * vault'.total_shares
<1> DEFINE left == Equity - ManagementTaken - PerformanceTaken
           total == vault.total_shares
<1>1. PICK usdc \in Nat :
          /\ RowMoves(Spendable(ledger, VaultRow) - ManagementTaken - PerformanceTaken - usdc)
          /\ Redeemed(d, shares, usdc)
    BY WithdrawStep
<1>2. /\ left \in Nat /\ left > 0 /\ ManagementTaken \in Nat /\ PerformanceTaken \in Nat
      /\ Equity \in Nat /\ shares \in Nat \ {0} /\ usdc * total <= shares * left
      /\ total \in Nat /\ Spendable(ledger, VaultRow) \in Nat /\ Worth \in Int
    BY <1>1, FeesOfVault, EquityFacts, VaultParts DEF Redeemed
<1>3. Worth = Equity
    <2>1. Equity > 0
        BY <1>2
    <2>2. QED
        BY <2>1, EquityFacts
<1>4. Worth' = left - usdc
    <2> DEFINE row == Spendable(ledger, VaultRow) - ManagementTaken - PerformanceTaken - usdc
    <2>1. row \in Int
        BY <1>2
    <2>2. Worth' = Worth - Spendable(ledger, VaultRow) + row
        BY <1>1, <2>1, WorthMoves
    <2>3. QED
        BY <1>2, <1>3, <2>2
<1>5. vault'.total_shares = total - shares
    BY <1>1, VaultParts DEF Redeemed, VaultRecord
<1>6. Worth - (ManagementTaken + PerformanceTaken) = left
    BY <1>2, <1>3
<1> HIDE DEF left, total
<1>7. (left - usdc) * total >= left * (total - shares)
    BY <1>2, RedemptionIsFair
<1>8. ~ vault'.total_shares > total
    BY <1>2, <1>5
<1>9. QED
    BY <1>4, <1>5, <1>6, <1>7, <1>8 DEF total

\* No deposit and no withdrawal lowers what the shares of the others are
\* worth by more than the fees: for every price, fee rate and rounding of
\* compute_vault_equity, deposit and withdraw.
THEOREM StayersNeverDiluted == VaultOnAnyEngine => StayersNotDiluted
<1> DEFINE Fair == vault.total_shares > 0 /\ vault'.total_shares \notin {0, vault.total_shares}
                   => LET paid == IF vault'.total_shares > vault.total_shares THEN ManagementTaken
                                  ELSE ManagementTaken + PerformanceTaken
                      IN  Worth' * vault.total_shares >= (Worth - paid) * vault'.total_shares
<1>1. ASSUME VInv, [VaultNext]_allvars PROVE Fair
    <2>1. CASE \E d \in Depositors, amount \in U64 : Deposit(d, amount)
        BY <1>1, <2>1, DepositIsFair, Zenon
    <2>2. CASE \E d \in Depositors, shares \in Nat : Withdraw(d, shares)
        BY <1>1, <2>2, WithdrawalIsFair, Zenon
    <2>3. CASE OtherStep
        BY <2>3 DEF OtherStep
    <2>4. QED
        BY <1>1, <2>1, <2>2, <2>3, StepsOfVault
<1>2. VInv /\ [VaultNext]_allvars => [Fair]_allvars
    BY <1>1
<1>3. QED
    BY <1>2, VaultInvariance, PTL DEF VaultOnAnyEngine, StayersNotDiluted

\* No gain is charged twice: the mark on which a performance fee is taken
\* is above every one on which it was taken before
\* (collect_performance_fee).
THEOREM ChargesOnlyRise == VaultOnAnyEngine => ChargedOnNewHighs
<1> DEFINE Rising == billed'.charged_at # billed.charged_at
                     => billed'.charged_at > billed.charged_at
<1>1. ASSUME VInv, [VaultNext]_allvars PROVE Rising
    <2>1. CASE \E d \in Depositors, amount \in U64 : Deposit(d, amount)
        <3>1. PICK d \in Depositors, amount \in U64 : Deposit(d, amount)
            BY <2>1
        <3>2. billed' = Billed(Equity, ManagementTaken, 0)
            BY <3>1 DEF Deposit
        <3>3. QED
            BY <1>1, <3>2, VaultParts DEF Billed, Bills
    <2>2. CASE \E d \in Depositors, shares \in Nat : Withdraw(d, shares)
        <3>1. PICK d \in Depositors, shares \in Nat : Withdraw(d, shares)
            BY <2>2
        <3> DEFINE left == Equity - ManagementTaken
                   high == EquityPerShare(left, vault.total_shares)
        <3>2. billed' = Billed(Equity, ManagementTaken, PerformanceTaken)
            BY <3>1 DEF Withdraw
        <3>3. billed'.charged_at = IF PerformanceTaken > 0 THEN high ELSE billed.charged_at
            BY <1>1, <3>2, VaultParts DEF Billed, Bills
        <3>4. ASSUME PerformanceTaken > 0
              PROVE  high > billed.charged_at
            <4>1. AtNewHigh(left) /\ left \in Nat
                BY <1>1, <3>4, FeesOfVault
            <4>2. /\ vault.total_shares \in Nat \ {0} /\ high > vault.high_water_mark
                  /\ vault.high_water_mark \in Nat /\ billed.charged_at \in Nat
                BY <1>1, <4>1, VaultParts DEF AtNewHigh, Bills
            <4>3. billed.charged_at <= vault.high_water_mark
                BY <1>1 DEF VInv, MarkCovers
            <4> HIDE DEF left
            <4>4. high \in Nat
                BY <4>1, <4>2, PerShareFacts
            <4> HIDE DEF high
            <4>5. QED
                BY <4>2, <4>3, <4>4
        <3> HIDE DEF high
        <3>5. QED
            BY <3>3, <3>4
    <2>3. CASE OtherStep
        BY <2>3 DEF OtherStep
    <2>4. QED
        BY <1>1, <2>1, <2>2, <2>3, StepsOfVault
<1>2. VInv /\ [VaultNext]_allvars => [Rising]_allvars
    BY <1>1
<1>3. QED
    BY <1>2, VaultInvariance, PTL DEF VaultOnAnyEngine, ChargedOnNewHighs

\* For the shortest cooldown after the drawdown limit stopped the vault, no
\* position of it grows: check_drawdown pauses with a stamp that no other
\* pause overwrites, and unpause_vault waits for that stamp.
THEOREM CooldownsHold == VaultOnAnyEngine => CooldownHeld
<1> DEFINE Held == \A m \in Markets :
                      Abs(position'[m][VaultRow].size) > Abs(position[m][VaultRow].size)
                      => \/ last_breach = 0
                         \/ \E secs \in Cooldowns \cup {DEFAULT_DRAWDOWN_COOLDOWN_SECS} :
                               now - last_breach >= secs
<1>1. ASSUME VInv, [VaultNext]_allvars PROVE Held
    <2>1. CASE position' = position
        <3>1. \A m \in Markets : Abs(position[m][VaultRow].size) \in Nat
            <4>1. \A m \in Markets : position[m][VaultRow].size \in Int
                BY <1>1, VaultParts, VaultConstants, StateFacts
            <4>2. QED
                BY <4>1 DEF Abs
        <3>2. QED
            BY <2>1, <3>1
    <2>2. CASE \E m \in Markets : position' = [position EXCEPT ![m][VaultRow] = NoPosition]
        <3>1. PICK m \in Markets : position' = [position EXCEPT ![m][VaultRow] = NoPosition]
            BY <2>2
        <3>2. \A n \in Markets : /\ n # m => position'[n] = position[n]
                                 /\ n = m => position'[n][VaultRow] = NoPosition
            BY <1>1, <3>1, VaultParts, VaultConstants DEF TypeOK
        <3>3. \A n \in Markets : position[n][VaultRow].size \in Int
            BY <1>1, VaultParts, VaultConstants, StateFacts
        <3>4. \A n \in Markets : ~ Abs(position'[n][VaultRow].size) > Abs(position[n][VaultRow].size)
            BY <3>2, <3>3, EmptyRecord DEF Abs
        <3>5. QED
            BY <3>4
    <2>3. CASE ~ vault.paused
        <3>1. last_breach \in Nat
            BY <1>1, VaultParts DEF VInv, StampsPast
        <3>2. last_breach > 0 => CooledDown
            BY <1>1, <2>3 DEF VInv, BreakerHolds
        <3>3. QED
            BY <3>1, <3>2 DEF CooledDown, CooldownChoices
    <2>4. CASE \/ \E d \in Depositors, amount \in U64 : Deposit(d, amount)
               \/ \E d \in Depositors, shares \in Nat : Withdraw(d, shares)
        BY <2>1, <2>4 DEF Deposit, Withdraw
    <2>5. QED
        BY <1>1, <2>1, <2>2, <2>3, <2>4, StepsOfVault DEF OtherStep
<1>2. VInv /\ [VaultNext]_allvars => [Held]_allvars
    BY <1>1
<1>3. QED
    BY <1>2, VaultInvariance, PTL DEF VaultOnAnyEngine, CooldownHeld

--------------------------------------------------------------------------------
(* Nobody is kept in *)

\* A performance fee is within the gain it is taken of, and the gain within
\* the worth.
LEMMA PerformanceFeeIsPart ==
    ASSUME VInv, NEW left \in Nat
    PROVE  PerformanceFee(left) \in Nat /\ PerformanceFee(left) <= left
<1> DEFINE total == vault.total_shares
           high == EquityPerShare(left, total)
           gain == high - vault.high_water_mark
           profit == (gain * total) \div SHARE_PRECISION
           bps == vault.performance_fee_bps
<1>1. CASE ~ AtNewHigh(left)
    BY <1>1 DEF PerformanceFee
<1>2. CASE AtNewHigh(left)
    <2>1. /\ total \in Nat \ {0} /\ vault.high_water_mark \in Nat /\ bps \in Nat /\ bps <= BPS
          /\ BPS \in Nat \ {0} /\ SHARE_PRECISION \in Nat \ {0}
        <3>1. /\ total \in Nat /\ total > 0 /\ vault.high_water_mark \in Nat
              /\ bps \in 0 .. MAX_PERFORMANCE_FEE_BPS
            BY <1>2, VaultParts DEF AtNewHigh, VaultRecord
        <3>2. /\ MAX_PERFORMANCE_FEE_BPS \in Nat /\ MAX_PERFORMANCE_FEE_BPS <= BPS
              /\ BPS \in Nat \ {0} /\ SHARE_PRECISION \in Nat \ {0}
            BY VaultConstants, TradingVaultAssumption
        <3>3. QED
            BY <3>1, <3>2
    <2>2. high \in Nat /\ high * total <= left * SHARE_PRECISION
        BY <2>1, PerShareFacts
    <2>3. gain \in Nat /\ gain <= high
        BY <1>2, <2>1, <2>2 DEF AtNewHigh
    <2> HIDE DEF high, gain
    <2>4. gain * total \in Nat /\ gain * total <= left * SHARE_PRECISION
        <3>1. total * gain <= total * high
            BY <2>1, <2>2, <2>3, ProductMonotone
        <3>2. /\ gain * total = total * gain /\ high * total = total * high
              /\ gain * total \in Nat /\ high * total \in Nat /\ left * SHARE_PRECISION \in Nat
            BY <2>1, <2>2, <2>3
        <3>3. QED
            BY <2>2, <3>1, <3>2
    <2>5. profit \in Nat /\ profit <= left
        BY <2>1, <2>4, FloorFacts, FloorBelow
    <2> HIDE DEF profit
    <2>6. profit * bps \in Nat /\ profit * bps <= profit * BPS
        BY <2>1, <2>5, ProductMonotone
    <2>7. Share(bps, profit) \in Nat /\ Share(bps, profit) <= profit
        BY <2>1, <2>5, <2>6, FloorFacts, FloorBelow DEF Share
    <2>8. PerformanceFee(left) = Share(bps, profit)
        BY <1>2 DEF PerformanceFee, profit, gain, high
    <2>9. QED
        BY <2>5, <2>7, <2>8
<1>3. QED
    BY <1>1, <1>2

\* A row pays the program's fees from what it has.
LEMMA FeeIsThere ==
    ASSUME NEW led \in Ledgers, NEW from \in Accounts, NEW to \in Accounts, from # to,
           NEW amount \in Nat, amount <= Spendable(led, from), Supply(led) <= MaxU64,
           venue_authorized, ~ vault_gate.paused, vault_gate.max_per_tx = 0
    PROVE  FeePayable(led, from, to, amount)
BY WhateverIsThere DEF FeePayable

\* The program's u64 holds the vault's whole supply, and what the highest
\* management fee would take of it from the first second to the last.
SupplyFits ==
    /\ Supply(ledger) <= MaxU64
    /\ Supply(ledger) * MAX_MANAGEMENT_FEE_BPS * LastTime <= MaxU64 * (BPS * SECONDS_PER_YEAR)

LEMMA ManagementFeeFits ==
    ASSUME VInv, SupplyFits, NEW equity \in Nat, equity <= Supply(ledger)
    PROVE  ManagementFee(equity) \in U64
<1> DEFINE bps == vault.management_fee_bps
           dt == now - vault.last_fee_accrual
           k == BPS * SECONDS_PER_YEAR
           s == Supply(ledger)
<1>1. /\ bps \in Nat /\ bps <= MAX_MANAGEMENT_FEE_BPS /\ MAX_MANAGEMENT_FEE_BPS \in Nat
      /\ LastTime \in Nat /\ MaxU64 \in Nat
    BY VaultParts, VaultConstants, LedgerAssumption DEF VaultRecord
<1>2. dt \in Nat /\ dt <= LastTime
    <2>1. now \in 1 .. LastTime
        BY DEF VInv, StampsPast, Now
    <2>2. QED
        BY <1>1, <2>1, VaultParts
<1>3. k \in Nat \ {0}
    <2>1. BPS \in Nat \ {0} /\ SECONDS_PER_YEAR \in Nat \ {0}
        BY VaultConstants
    <2>2. QED
        BY <2>1
<1>4. s \in Nat
    <2>1. /\ ledger.balance \in [1 .. NumAccounts -> Nat]
          /\ ledger.collateral_balance \in [1 .. NumAccounts -> Nat]
        BY VaultParts, VaultConstants, LedgerAssumption DEF Ledgers, U64
    <2>2. TotalBalance(ledger) \in Nat /\ TotalCollateral(ledger) \in Nat
        BY <2>1, VaultConstants, SumBound DEF TotalBalance, TotalCollateral
    <2>3. QED
        BY <2>2 DEF Supply
<1>5. s * MAX_MANAGEMENT_FEE_BPS * LastTime <= MaxU64 * k
    BY DEF SupplyFits
<1>6. equity <= s
    OBVIOUS
<1> HIDE DEF bps, dt, k, s
<1>7. equity * bps * dt <= s * MAX_MANAGEMENT_FEE_BPS * LastTime
    <2>1. equity * bps <= s * bps /\ s * bps <= s * MAX_MANAGEMENT_FEE_BPS
        <3>1. bps * equity <= bps * s /\ s * bps <= s * MAX_MANAGEMENT_FEE_BPS
            BY <1>1, <1>4, <1>6, ProductMonotone
        <3>2. bps * equity = equity * bps /\ bps * s = s * bps
            BY <1>1, <1>4
        <3>3. QED
            BY <3>1, <3>2
    <2> DEFINE x == equity * bps
               z == s * MAX_MANAGEMENT_FEE_BPS
    <2>2. x \in Nat /\ z \in Nat /\ x <= z
        BY <1>1, <1>4, <2>1
    <2> HIDE DEF x, z
    <2>3. dt * x <= dt * z /\ z * dt <= z * LastTime
        BY <1>1, <1>2, <2>2, ProductMonotone
    <2>4. /\ dt * x = x * dt /\ dt * z = z * dt
          /\ x * dt \in Nat /\ z * dt \in Nat /\ z * LastTime \in Nat
        BY <1>1, <1>2, <2>2
    <2>5. x * dt <= z * LastTime
        BY <2>3, <2>4
    <2>6. QED
        BY <2>5 DEF x, z
<1> DEFINE due == equity * bps * dt
<1>8. due \in Nat
    BY <1>1, <1>2
<1>9. due <= MaxU64 * k
    <2> DEFINE top == s * MAX_MANAGEMENT_FEE_BPS * LastTime
               cap == MaxU64 * k
    <2>1. top \in Nat /\ cap \in Nat /\ due <= top /\ top <= cap
        BY <1>1, <1>3, <1>4, <1>5, <1>7
    <2> HIDE DEF top, cap, due
    <2>2. due <= cap
        BY <1>8, <2>1
    <2>3. QED
        BY <2>2 DEF cap
<1> HIDE DEF due
<1>10. due \div k \in Nat /\ due \div k <= MaxU64
    BY <1>1, <1>3, <1>8, <1>9, FloorFacts, FloorBelow
<1>11. ManagementFee(equity) = IF vault.total_shares = 0 THEN 0 ELSE due \div k
    BY DEF ManagementFee, due, bps, dt, k
<1>12. QED
    BY <1>1, <1>10, <1>11 DEF U64

\* What is redeemed is within what is there, as shares are within the total.
LEMMA RedemptionIsPart ==
    ASSUME VInv, NEW d \in Accounts, NEW shares \in Nat, 0 < shares, shares <= holding[d].shares
    PROVE  /\ UsdcFor(shares) \in Nat
           /\ UsdcFor(shares) <= Equity - ManagementTaken - PerformanceTaken
<1> DEFINE left == Equity - ManagementTaken - PerformanceTaken
           total == vault.total_shares
<1>1. left \in Nat /\ total \in Nat \ {0} /\ shares <= total
    <2>1. holding[d].shares \in Nat /\ holding[d].shares <= total /\ total \in Nat
        BY HeldShares, VaultParts
    <2>2. QED
        BY <2>1, FeesOfVault
<1>2. UsdcFor(shares) = (shares * left) \div total
    BY DEF UsdcFor
<1> HIDE DEF left, total
<1>3. shares * left \in Nat /\ shares * left <= left * total
    <2>1. left * shares <= left * total
        BY <1>1, ProductMonotone
    <2>2. shares * left = left * shares /\ shares * left \in Nat
        BY <1>1
    <2>3. QED
        BY <2>1, <2>2
<1>4. (shares * left) \div total \in Nat /\ (shares * left) \div total <= left
    BY <1>1, <1>3, FloorFacts, FloorBelow
<1>5. QED
    BY <1>2, <1>4 DEF left

LEMMA MayLeave ==
    ASSUME VInv, SupplyFits,
           venue_authorized, ~ vault_gate.paused, vault_gate.max_per_tx = 0,
           \A m \in Markets : position[m][VaultRow].size = 0,
           NEW d \in Depositors, holding[d].shares > 0, UsdcFor(holding[d].shares) > 0,
           now >= holding[d].deposit_timestamp + vault.lockup_period_secs
    PROVE  WithdrawAllowed(d, holding[d].shares)
<1> DEFINE shares == holding[d].shares
           usdc == UsdcFor(shares)
           left == Equity - ManagementTaken
           once == Paid(ledger, VaultRow, vault.manager, ManagementTaken)
<1>1. /\ d \in Accounts /\ d # VaultRow /\ VaultRow \in Accounts /\ ledger \in Ledgers
      /\ vault_gate \in VaultGates /\ MaxU64 \in Nat
    BY VaultConstants, VaultParts, LedgerAssumption
<1>2. shares \in Nat /\ 0 < shares /\ shares <= holding[d].shares /\ vault.total_shares > 0
    <2>1. shares \in Nat /\ shares <= vault.total_shares /\ vault.total_shares \in Nat
        BY <1>1, HeldShares, VaultParts
    <2>2. QED
        BY <2>1
<1>3. vault.created /\ vault.manager \in Accounts /\ vault.manager # VaultRow
    <2>1. vault.created
        BY <1>2 DEF VInv, NothingYet, NoVault
    <2>2. QED
        BY <2>1, VaultParts, VaultConstants
<1>4. /\ Equity = Spendable(ledger, VaultRow) /\ Equity \in Nat
      /\ ManagementTaken \in Nat /\ ManagementTaken <= Equity /\ left \in Nat
      /\ PerformanceTaken \in Nat /\ left - PerformanceTaken \in Nat
    BY EquityFacts, FeesOfVault
<1>5. Equity <= Supply(ledger) /\ Supply(ledger) <= MaxU64 /\ Supply(ledger) \in Nat
    <2> DEFINE b == ledger.balance
               c == ledger.collateral_balance
    <2>1. /\ b \in [1 .. NumAccounts -> Nat] /\ c \in [1 .. NumAccounts -> Nat]
          /\ NumAccounts \in Nat /\ VaultRow \in 1 .. NumAccounts
        BY <1>1, VaultConstants, LedgerAssumption DEF Ledgers, U64
    <2>2. /\ Equity = b[VaultRow] + c[VaultRow]
          /\ Supply(ledger) = SumTo(b, NumAccounts) + SumTo(c, NumAccounts)
        BY <1>4 DEF Spendable, Supply, TotalBalance, TotalCollateral
    <2> HIDE DEF b, c
    <2>3. /\ b[VaultRow] <= SumTo(b, NumAccounts) /\ c[VaultRow] <= SumTo(c, NumAccounts)
          /\ SumTo(b, NumAccounts) \in Nat /\ SumTo(c, NumAccounts) \in Nat
          /\ b[VaultRow] \in Nat /\ c[VaultRow] \in Nat
        BY <2>1, SumBound
    <2>4. QED
        BY <2>2, <2>3 DEF SupplyFits
<1>6. EquityFits /\ ManagementFee(Equity) \in U64
    <2>1. ManagementFee(Equity) \in U64
        BY <1>4, <1>5, ManagementFeeFits
    <2>2. QED
        BY <1>1, <1>4, <1>5, <2>1 DEF EquityFits
<1>7. PerformanceFee(left) \in U64
    <2>1. PerformanceFee(left) \in Nat /\ PerformanceFee(left) <= left
        BY <1>4, PerformanceFeeIsPart
    <2>2. QED
        BY <1>1, <1>4, <1>5, <2>1 DEF U64
<1>8. usdc \in Nat /\ usdc <= left - PerformanceTaken /\ usdc > 0
    BY <1>1, <1>2, RedemptionIsPart
<1>9. FeePayable(ledger, VaultRow, vault.manager, ManagementTaken)
    BY <1>1, <1>3, <1>4, <1>5, FeeIsThere
<1>10. /\ once \in Ledgers /\ Supply(once) = Supply(ledger)
       /\ Spendable(once, VaultRow) = left
    BY <1>1, <1>3, <1>4, <1>9, FeeFacts DEF Supply
<1> HIDE DEF once
<1>11. FeePayable(once, VaultRow, vault.manager, PerformanceTaken)
    <2>1. PerformanceTaken <= Spendable(once, VaultRow) /\ Supply(once) <= MaxU64
        BY <1>4, <1>5, <1>10
    <2>2. QED
        BY <1>1, <1>3, <1>4, <1>10, <2>1, FeeIsThere
<1>12. LedgerAfterFees = Paid(once, VaultRow, vault.manager, PerformanceTaken)
    BY DEF LedgerAfterFees, once
<1>13. /\ LedgerAfterFees \in Ledgers /\ Supply(LedgerAfterFees) = Supply(once)
       /\ Spendable(LedgerAfterFees, VaultRow) = left - PerformanceTaken
    BY <1>1, <1>3, <1>4, <1>10, <1>11, <1>12, FeeFacts DEF Supply
<1>14. FeePayable(LedgerAfterFees, VaultRow, d, usdc)
    <2>1. usdc <= Spendable(LedgerAfterFees, VaultRow) /\ Supply(LedgerAfterFees) <= MaxU64
        BY <1>5, <1>8, <1>10, <1>13
    <2>2. QED
        BY <1>1, <1>8, <1>13, <2>1, FeeIsThere
<1>15. QED
    BY <1>2, <1>3, <1>6, <1>7, <1>8, <1>9, <1>11, <1>14 DEF WithdrawAllowed, once, left, usdc, shares

\* While the vault has no position and perp_vault serves the program, whoever
\* is past the lockup can redeem: no pause, no cap, no fee and no overflow of
\* withdraw, collect_performance_fee or internal_transfer stands in the way.
THEOREM HoldersCanAlwaysLeave == VaultOnAnyEngine /\ SupplyFits => []HoldersCanLeave
<1>1. ASSUME VInv, SupplyFits PROVE HoldersCanLeave
    BY <1>1, MayLeave DEF HoldersCanLeave
<1>2. ASSUME VInv, SupplyFits, [VaultNext]_allvars PROVE SupplyFits'
    <2>1. LedgerKept
        BY <1>2, VaultNextKeeps
    <2>2. Supply(ledger)' = Supply(ledger)
        BY <2>1 DEF LedgerKept, Supply
    <2>3. QED
        BY <1>2, <2>2 DEF SupplyFits
<1>3. VInv /\ SupplyFits => HoldersCanLeave
    BY <1>1
<1>4. VInv /\ SupplyFits /\ [VaultNext]_allvars => SupplyFits'
    BY <1>2
<1>5. VaultOnAnyEngine => []VInv
    BY VaultInvariance
<1>6. VaultOnAnyEngine => [][VaultNext]_allvars
    BY PTL DEF VaultOnAnyEngine
<1>7. QED
    BY <1>3, <1>4, <1>5, <1>6, PTL

\* All of it for the system a deployment leaves, where the run starts too.
THEOREM DeployedTradingVault ==
    VaultSpec => /\ []TradingVaultInv
                 /\ StayersNotDiluted /\ ChargedOnNewHighs /\ CooldownHeld
                 /\ SupplyFits => []HoldersCanLeave
BY DeployedVInv, VaultBooksKept, StayersNeverDiluted, ChargesOnlyRise, CooldownsHold,
   HoldersCanAlwaysLeave
================================================================================
