--------------------------- MODULE PerpEngineProofs ----------------------------
(***************************************************************************)
(* The engine, for every number of traders and markets and every width,    *)
(* precision, price and margin parameter: open interest is exact, every    *)
(* position holds its initial margin, trades conserve the ledger, only     *)
(* losing positions are liquidated, and the pool pays out only profits.    *)
(* And for the programs that act on it when prices move: a losing position *)
(* can always be liquidated, and deleveraging never flips or reopens one.  *)
(*                                                                         *)
(* The steps are proved on books, the records of TradeRouting, so that the *)
(* same lemmas serve the engine's own instructions and the two fills a     *)
(* venue routes to it within one instruction.                              *)
(***************************************************************************)
EXTENDS TradeRouting, RiskControls, VaultLedgerProofs

\* Listed markets keep the parameters add_market checked; the others have no price.
MarketsSound ==
    \A m \in Markets :
        /\ market[m].active =>
              /\ market[m].maintenance_margin_bps <= market[m].initial_margin_bps
              /\ NumTraders * market[m].max_position_size <= MaxU64
        /\ ~ market[m].active => market[m].mark_price = 0

\* The inductive invariant.  OpenInterestExact needs the size limit of
\* PositionsListed (an addition never saturates) and its own instance for the
\* old state (a subtraction never does).
IInv == TypeOK /\ MarketsSound /\ OpenInterestExact /\ MarginIsRequired /\ PositionsListed

PositionRecord == [size : I64, entry_price : U64, margin : U64]

--------------------------------------------------------------------------------
(* Arithmetic *)

LEMMA DivFacts ==
    ASSUME NEW x \in Nat, NEW d \in Nat \ {0}
    PROVE  x \div d \in Nat /\ (x >= d => x \div d >= 1) /\ 0 \div d = 0
OBVIOUS

LEMMA DivMonotone ==
    ASSUME NEW x \in Nat, NEW y \in Nat, NEW d \in Nat \ {0}, x <= y
    PROVE  x \div d <= y \div d
<1> DEFINE a == x \div d
           b == y \div d
<1>1. a \in Int /\ b \in Int /\ d * a <= x /\ y < d * b + d
    OBVIOUS
<1>2. SUFFICES ASSUME a >= b + 1 PROVE FALSE
    BY <1>1
<1> HIDE DEF a, b
<1>3. d * a >= d * (b + 1)
    BY <1>1, <1>2
<1>4. d * (b + 1) = d * b + d
    BY <1>1
<1>5. d * a \in Int /\ d * b \in Int
    BY <1>1
<1>6. QED
    BY <1>1, <1>3, <1>4, <1>5

LEMMA ProductMonotone ==
    ASSUME NEW x \in Nat, NEW y \in Nat, NEW c \in Nat, x <= y
    PROVE  c * x <= c * y /\ c * x \in Nat /\ c * y \in Nat
OBVIOUS

\* A position of size zero needs no margin.
LEMMA NoMarginForNothing ==
    ASSUME NEW bps \in Nat, NEW price \in Nat
    PROVE  RequiredMargin(bps, 0, price) = 0
<1>1. Notional(0, price) = 0
    BY EngineAssumption, DivFacts DEF Notional
<1>2. QED
    BY <1>1, EngineAssumption, DivFacts DEF RequiredMargin, Share

LEMMA Magnitude ==
    ASSUME NEW x \in Int
    PROVE  /\ Abs(x) \in Nat /\ Abs(0) = 0
           /\ LongPart(x) \in Nat /\ ShortPart(x) \in Nat
           /\ LongPart(x) <= Abs(x) /\ ShortPart(x) <= Abs(x)
           /\ LongPart(0) = 0 /\ ShortPart(0) = 0
BY DEF Abs, LongPart, ShortPart

\* An entry price is positive when the prices it is made of are.
LEMMA EntryPositive ==
    ASSUME NEW pos \in PositionRecord, NEW new_size \in Int, NEW fill_price \in Nat,
           fill_price > 0, pos.size # 0 => pos.entry_price > 0,
           EntryPrice(pos, new_size, fill_price) \in U64
    PROVE  EntryPrice(pos, new_size, fill_price) > 0
<1> DEFINE k == Abs(pos.size)
           n == Abs(new_size)
           e == pos.entry_price
<1>1. pos.size \in Int /\ e \in Nat /\ k \in Nat /\ n \in Nat
    BY LedgerAssumption, Magnitude DEF PositionRecord, I64, U64, MaxI64
<1>2. CASE Sign(pos.size) # Sign(new_size) \/ pos.size = 0
    BY <1>2 DEF EntryPrice
<1>3. CASE ~ (Sign(pos.size) # Sign(new_size) \/ pos.size = 0) /\ n > k
    <2>1. EntryPrice(pos, new_size, fill_price) = (k * e + (n - k) * fill_price) \div n
        BY <1>3 DEF EntryPrice
    <2>2. e >= 1 /\ fill_price >= 1 /\ n - k \in Nat /\ n \in Nat \ {0}
        BY <1>1, <1>3
    <2> HIDE DEF k, n, e
    <2>3. k * e >= k * 1 /\ k * e \in Nat
        BY <1>1, <2>2, ProductMonotone
    <2>4. (n - k) * fill_price >= (n - k) * 1 /\ (n - k) * fill_price \in Nat
        BY <1>1, <2>2, ProductMonotone
    <2>5. k * e + (n - k) * fill_price >= n /\ k * e + (n - k) * fill_price \in Nat
        BY <1>1, <2>2, <2>3, <2>4
    <2>6. (k * e + (n - k) * fill_price) \div n >= 1
        <3> DEFINE x == k * e + (n - k) * fill_price
        <3>1. x \in Nat /\ x >= n
            BY <2>5
        <3> HIDE DEF x
        <3>2. x \div n >= 1
            BY <2>2, <3>1, DivFacts
        <3>3. QED
            BY <3>2 DEF x
    <2>7. EntryPrice(pos, new_size, fill_price) \in Int
        BY LedgerAssumption DEF U64
    <2>8. QED
        BY <2>1, <2>6, <2>7
<1>4. CASE ~ (Sign(pos.size) # Sign(new_size) \/ pos.size = 0) /\ ~ (n > k)
    BY <1>1, <1>4 DEF EntryPrice
<1>5. QED
    BY <1>2, <1>3, <1>4

\* A sum's quotient exceeds a term's quotient by at most the other's and one.
LEMMA DivOfSum ==
    ASSUME NEW x \in Nat, NEW y \in Nat, NEW d \in Nat \ {0}
    PROVE  (x + y) \div d <= (x \div d) + (y \div d) + 1
<1> DEFINE a == x \div d
           b == y \div d
           c == (x + y) \div d
<1>1. /\ a \in Int /\ b \in Int /\ c \in Int
      /\ x < d * a + d /\ y < d * b + d /\ d * c <= x + y
    OBVIOUS
<1>2. SUFFICES ASSUME c >= a + b + 2 PROVE FALSE
    BY <1>1
<1> HIDE DEF a, b, c
<1>3. d * c >= d * (a + b + 2)
    BY <1>1, <1>2
<1>4. d * (a + b + 2) = d * a + d * b + 2 * d /\ d * a \in Int /\ d * b \in Int /\ d * c \in Int
    BY <1>1
<1>5. QED
    BY <1>1, <1>3, <1>4

\* Adding whole multiples of the divisor adds to the quotient.
LEMMA DivOfMultiple ==
    ASSUME NEW x \in Nat, NEW k \in Nat, NEW d \in Nat \ {0}
    PROVE  (x + k * d) \div d = (x \div d) + k
<1> DEFINE a == x \div d
           c == (x + k * d) \div d
<1>1. /\ a \in Int /\ c \in Int
      /\ d * a <= x /\ x < d * a + d
      /\ d * c <= x + k * d /\ x + k * d < d * c + d
    <2>1. x + k * d \in Nat
        OBVIOUS
    <2>2. QED
        BY <2>1
<1> HIDE DEF a, c
<1>2. d * (a + k) = d * a + k * d /\ d * a \in Int /\ d * c \in Int /\ k * d \in Int
    BY <1>1
<1>3. ~ (c >= a + k + 1)
    <2> SUFFICES ASSUME c >= a + k + 1 PROVE FALSE
        OBVIOUS
    <2>1. d * c >= d * (a + k + 1) /\ d * (a + k + 1) = d * (a + k) + d
        BY <1>1
    <2>2. QED
        BY <1>1, <1>2, <2>1
<1>4. ~ (c <= a + k - 1)
    <2> SUFFICES ASSUME c <= a + k - 1 PROVE FALSE
        OBVIOUS
    <2>1. d * c <= d * (a + k - 1) /\ d * (a + k - 1) = d * (a + k) - d
        BY <1>1
    <2>2. QED
        BY <1>1, <1>2, <2>1
<1>5. c = a + k
    BY <1>1, <1>3, <1>4
<1>6. QED
    BY <1>5 DEF a, c

\* A share of at most half of the notional grows by no more than the profit
\* that made the notional grow.
LEMMA HalfShare ==
    ASSUME NEW n0 \in Nat, NEW n1 \in Nat, NEW pnl \in Nat, NEW bps \in Nat,
           n1 <= n0 + 2 * pnl, 2 * bps <= BPS
    PROVE  Share(bps, n1) <= Share(bps, n0) + pnl
<1>0. BPS \in Nat \ {0}
    BY EngineAssumption
<1> DEFINE a == n1 * bps
           b == n0 * bps
           c == pnl * BPS
<1>1. /\ a \in Nat /\ b \in Nat /\ c \in Nat
      /\ a <= b + c
    <2>1. bps * n1 <= bps * (n0 + 2 * pnl)
        BY ProductMonotone, n0 + 2 * pnl \in Nat
    <2>2. bps * (n0 + 2 * pnl) = n0 * bps + pnl * (2 * bps) /\ n0 * bps \in Nat
        OBVIOUS
    <2>3. pnl * (2 * bps) <= pnl * BPS /\ pnl * (2 * bps) \in Nat /\ pnl * BPS \in Nat
        BY <1>0, ProductMonotone, 2 * bps \in Nat
    <2>4. bps * n1 = n1 * bps /\ n1 * bps \in Nat
        OBVIOUS
    <2>5. QED
        BY <2>1, <2>2, <2>3, <2>4
<1>2. (b + pnl * BPS) \div BPS = (b \div BPS) + pnl
    <2> HIDE DEF b
    <2>1. QED
        BY <1>0, <1>1, DivOfMultiple
<1> HIDE DEF a, b
<1>3. a \div BPS <= (b + c) \div BPS
    <2> HIDE DEF c
    <2>1. QED
        BY <1>0, <1>1, DivMonotone
<1>4. QED
    BY <1>2, <1>3 DEF Share, a, b

LEMMA NotionalType ==
    ASSUME NEW s \in Nat, NEW price \in Nat
    PROVE  Notional(s, price) \in Nat
<1> DEFINE x == s * price
<1>1. x \in Nat
    OBVIOUS
<1> HIDE DEF x
<1>2. x \div SIZE_PRECISION \in Nat
    BY <1>1, EngineAssumption, DivFacts
<1>3. QED
    BY <1>2 DEF Notional, x

LEMMA PnlType ==
    ASSUME NEW closed \in Int, NEW entry \in Nat, NEW price \in Nat
    PROVE  Pnl(closed, entry, price) \in Int
<1> DEFINE x == (IF closed > 0 THEN price - entry ELSE entry - price) * Abs(closed)
<1>1. x \in Int
    <2> DEFINE y == IF closed > 0 THEN price - entry ELSE entry - price
               z == Abs(closed)
    <2>1. y \in Int /\ z \in Int
        BY Magnitude
    <2> HIDE DEF y, z
    <2>2. y * z \in Int
        BY <2>1
    <2>3. QED
        BY <2>2 DEF y, z
<1> HIDE DEF x
<1>2. TruncDiv(x, SIZE_PRECISION) \in Int
    <2>1. CASE x >= 0
        BY <1>1, <2>1, EngineAssumption, DivFacts DEF TruncDiv
    <2>2. CASE ~ (x >= 0)
        <3>1. -x \in Nat
            BY <1>1, <2>2
        <3>2. (-x) \div SIZE_PRECISION \in Nat
            BY <3>1, EngineAssumption, DivFacts
        <3>3. QED
            BY <3>2, <2>2 DEF TruncDiv
    <2>3. QED
        BY <2>1, <2>2
<1>3. QED
    BY <1>2 DEF Pnl, x

\* A profit comes with a notional that is at most two profits larger than at
\* the entry: a long's grew by the profit and its rounding, a short's shrank.
LEMMA ProfitBoundsNotional ==
    ASSUME NEW size \in Int, NEW entry \in Nat, NEW price \in Nat,
           size # 0, Pnl(size, entry, price) > 0
    PROVE  Notional(Abs(size), price) <= Notional(Abs(size), entry) + 2 * Pnl(size, entry, price)
<1> DEFINE s == Abs(size)
           gap == IF size > 0 THEN price - entry ELSE entry - price
           d == gap * s
           pnl == Pnl(size, entry, price)
           n0 == Notional(s, entry)
           n1 == Notional(s, price)
<1>0. SIZE_PRECISION \in Nat \ {0}
    BY EngineAssumption
<1>1. s \in Nat /\ gap \in Int /\ pnl \in Int /\ n0 \in Nat /\ n1 \in Nat
    <2>1. s \in Nat /\ gap \in Int
        BY Magnitude
    <2>2. QED
        BY <2>1, NotionalType, PnlType
<1>2. pnl = TruncDiv(d, SIZE_PRECISION)
    BY DEF Pnl
<1> HIDE DEF s
<1>3. d \in Int
    <2> HIDE DEF gap
    <2>1. QED
        BY <1>1
<1> DEFINE e == s * entry
           f == s * price
<1>4. n0 = e \div SIZE_PRECISION /\ n1 = f \div SIZE_PRECISION /\ e \in Nat /\ f \in Nat
    BY <1>1 DEF Notional
<1>5. IF size > 0 THEN f = e + d ELSE f = e - d
    BY <1>1
<1> HIDE DEF d, e, f, gap
<1>6. d > 0 /\ pnl = d \div SIZE_PRECISION
    <2>1. CASE d >= 0
        <3>1. pnl = d \div SIZE_PRECISION
            BY <1>2, <2>1 DEF TruncDiv
        <3>2. d # 0
            BY <1>0, <3>1, DivFacts
        <3>3. QED
            BY <1>3, <2>1, <3>1, <3>2
    <2>2. CASE ~ (d >= 0)
        <3>1. pnl = -((-d) \div SIZE_PRECISION) /\ -d \in Nat
            BY <1>2, <1>3, <2>2 DEF TruncDiv
        <3>2. (-d) \div SIZE_PRECISION \in Nat
            BY <1>0, <3>1, DivFacts
        <3>3. pnl <= 0
            BY <3>1, <3>2
        <3>4. QED
            BY <1>1, <3>3
    <2>3. QED
        BY <2>1, <2>2
<1> HIDE DEF pnl, n0, n1
<1>7. n1 <= n0 + 2 * pnl
    <2>1. CASE size > 0
        <3>1. n1 <= n0 + pnl + 1
            BY <1>0, <1>3, <1>4, <1>5, <1>6, <2>1, DivOfSum
        <3>2. pnl >= 1
            BY <1>1 DEF pnl
        <3>3. QED
            BY <1>1, <3>1, <3>2
    <2>2. CASE ~ (size > 0)
        <3>1. f <= e
            BY <1>3, <1>4, <1>5, <1>6, <2>2
        <3>2. n1 <= n0
            BY <1>0, <1>4, <3>1, DivMonotone
        <3>3. pnl > 0
            BY DEF pnl
        <3>4. QED
            BY <1>1, <3>2, <3>3
    <2>3. QED
        BY <2>1, <2>2
<1>8. QED
    BY <1>7 DEF n0, n1, pnl, s

--------------------------------------------------------------------------------
(* Open interest *)

\* Dropping and adding a row's parts keeps a side's total exact, as long as
\* the rows stay below a cap that all of them together fit in a u64.
LEMMA SideUpdate ==
    ASSUME NEW f \in [Traders -> Nat], NEW t \in Traders,
           NEW dropped \in Nat, NEW added \in Nat, NEW cap \in Nat,
           NEW v \in Nat,
           dropped <= f[t], v = f[t] - dropped + added, v <= cap,
           \A i \in Traders : f[i] <= cap,
           NumTraders * cap <= MaxU64
    PROVE  /\ SatAdd(SatSub(SumTo(f, NumTraders), dropped), added)
                  = SumTo([f EXCEPT ![t] = v], NumTraders)
           /\ SumTo([f EXCEPT ![t] = v], NumTraders) \in U64
<1> DEFINE g == [f EXCEPT ![t] = v]
           s == SumTo(f, NumTraders)
           r == SumTo(g, NumTraders)
<1>1. /\ NumTraders \in Nat /\ MaxU64 \in Nat
      /\ f \in [1 .. NumTraders -> Nat] /\ f \in [1 .. NumTraders -> Int]
      /\ g \in [1 .. NumTraders -> Nat] /\ v \in Int /\ t \in 1 .. NumTraders
      /\ f[t] \in Nat
      /\ \A i \in 1 .. NumTraders : g[i] <= cap
    BY EngineAssumption, LedgerAssumption DEF Traders
<1>2. r = s - f[t] + v
    <2>1. NumTraders \in Nat /\ f \in [1 .. NumTraders -> Int] /\ t \in 1 .. NumTraders /\ v \in Int
        BY <1>1
    <2>2. SumTo([f EXCEPT ![t] = v], NumTraders) = SumTo(f, NumTraders) - f[t] + v
        BY <2>1, SumUpdate
    <2>3. QED
        BY <2>2
<1> HIDE DEF g
<1>3. s \in Nat /\ f[t] <= s
    BY <1>1, SumBound
<1>4. r \in Nat
    BY <1>1, SumBound
<1>5. r <= NumTraders * cap
    BY <1>1, SumCap
<1>6. r <= MaxU64
    <2>1. NumTraders * cap \in Nat
        BY <1>1
    <2>2. QED
        BY <1>1, <1>4, <1>5, <2>1
<1> HIDE DEF s, r
<1>7. SatAdd(SatSub(s, dropped), added) = r
    <2>1. SatSub(s, dropped) = s - dropped
        BY <1>1, <1>3 DEF SatSub
    <2>2. s - dropped + added = r
        BY <1>1, <1>2, <1>3
    <2>3. QED
        BY <1>1, <1>4, <1>6, <2>1, <2>2 DEF SatAdd, AtMost
<1>8. QED
    BY <1>1, <1>4, <1>6, <1>7 DEF U64, s, r, g

LongRows(pos, m) == [t \in Traders |-> LongPart(pos[m][t].size)]
ShortRows(pos, m) == [t \in Traders |-> ShortPart(pos[m][t].size)]

MarketRecord == [active : BOOLEAN, initial_margin_bps : U64, maintenance_margin_bps : U64,
                 max_position_size : U64, mark_price : U64,
                 open_interest_long : U64, open_interest_short : U64]
BookRecord == [market : [Markets -> MarketRecord],
               position : [Markets -> [Traders -> PositionRecord]],
               ledger : Ledgers]

\* The inductive invariant as a property of a book, so that it can be followed
\* through a chain of calls: of a market, of a position in it, of all of them.
MarketSound(mkt) ==
    /\ mkt.active => /\ mkt.maintenance_margin_bps <= mkt.initial_margin_bps
                     /\ NumTraders * mkt.max_position_size <= MaxU64
    /\ ~ mkt.active => mkt.mark_price = 0

PositionSound(mkt, pos) ==
    /\ pos.margin = RequiredMargin(mkt.initial_margin_bps, Abs(pos.size), pos.entry_price)
    /\ pos.size # 0 => /\ mkt.active
                       /\ Abs(pos.size) <= mkt.max_position_size
                       /\ pos.entry_price > 0

InterestExact(b, m) ==
    /\ b.market[m].open_interest_long = SumTo(LongRows(b.position, m), NumTraders)
    /\ b.market[m].open_interest_short = SumTo(ShortRows(b.position, m), NumTraders)

Sound(b) ==
    /\ b \in BookRecord
    /\ \A m \in Markets :
          /\ MarketSound(b.market[m])
          /\ InterestExact(b, m)
          /\ \A t \in Traders : PositionSound(b.market[m], b.position[m][t])

AdminTyped ==
    /\ owner \in Keys /\ pending_owner \in Keys \cup {NoKey}
    /\ paused \in BOOLEAN /\ operators \subseteq Keys
    /\ engine_pool \in {Pool, NoAccount}
    /\ insurance_fund_balance \in {Insurance, NoAccount}
    /\ vault_gate \in VaultGates

LEMMA SoundBooks ==
    /\ IInv <=> Sound(Books) /\ AdminTyped
    /\ IInv' <=> Sound(Books)' /\ AdminTyped'
<1>1. TypeOK <=> Books \in BookRecord /\ AdminTyped
    BY DEF TypeOK, Books, BookRecord, MarketRecord, PositionRecord, AdminTyped
<1>2. MarketsSound <=> \A m \in Markets : MarketSound(Books.market[m])
    BY DEF MarketsSound, MarketSound, Books
<1>3. OpenInterestExact <=> \A m \in Markets : InterestExact(Books, m)
    BY DEF OpenInterestExact, InterestExact, LongRows, ShortRows, Books
<1>4. MarginIsRequired /\ PositionsListed
          <=> \A m \in Markets, t \in Traders : PositionSound(Books.market[m], Books.position[m][t])
    BY DEF MarginIsRequired, PositionsListed, PositionSound, Books
<1>5. IInv <=> Sound(Books) /\ AdminTyped
    BY <1>1, <1>2, <1>3, <1>4 DEF IInv, Sound
<1>6. QED
    BY <1>5, PTL

LEMMA BookFacts ==
    ASSUME NEW b, Sound(b), NEW m \in Markets, NEW t \in Traders
    PROVE  /\ b.market \in [Markets -> MarketRecord] /\ b.market[m] \in MarketRecord
           /\ b.position \in [Markets -> [Traders -> PositionRecord]]
           /\ b.position[m][t] \in PositionRecord
           /\ b.ledger \in Ledgers
           /\ b.position[m][t].size \in Int
           /\ b.position[m][t].entry_price \in U64 /\ b.position[m][t].entry_price \in Nat
           /\ b.position[m][t].margin \in Nat
           /\ b.market[m].initial_margin_bps \in Nat
           /\ b.market[m].max_position_size \in Nat
           /\ PositionSound(b.market[m], b.position[m][t])
           /\ U64 \subseteq Nat
           /\ t \in Accounts /\ Pool \in Accounts /\ t # Pool
<1>1. /\ b.market \in [Markets -> MarketRecord] /\ b.market[m] \in MarketRecord
      /\ b.position \in [Markets -> [Traders -> PositionRecord]]
      /\ b.position[m][t] \in PositionRecord
      /\ b.ledger \in Ledgers
      /\ PositionSound(b.market[m], b.position[m][t])
    BY DEF Sound, BookRecord
<1>2. U64 \subseteq Nat /\ I64 \subseteq Int
    BY LedgerAssumption DEF U64, I64, MaxI64
<1>3. t \in Accounts /\ Pool \in Accounts /\ t # Pool
    BY EngineAssumption, LedgerAssumption DEF Accounts, Traders
<1>4. QED
    BY <1>1, <1>2, <1>3 DEF PositionRecord, MarketRecord

\* Replacing one position, with open interest rebooked to match, keeps a book
\* sound, whatever happens to the ledger.
LEMMA BookStep ==
    ASSUME NEW b, Sound(b), NEW m \in Markets, NEW t \in Traders,
           NEW p \in PositionRecord, NEW dropped \in Int, NEW added \in Int, NEW led \in Ledgers,
           b.market[m].active, PositionSound(b.market[m], p),
           Abs(p.size) <= b.market[m].max_position_size,
           LongPart(dropped) <= LongPart(b.position[m][t].size),
           ShortPart(dropped) <= ShortPart(b.position[m][t].size),
           LongPart(p.size) = LongPart(b.position[m][t].size) - LongPart(dropped) + LongPart(added),
           ShortPart(p.size) = ShortPart(b.position[m][t].size) - ShortPart(dropped) + ShortPart(added)
    PROVE  Sound([market |-> [b.market EXCEPT ![m] = Rebook(b.market[m], dropped, added)],
                  position |-> [b.position EXCEPT ![m][t] = p], ledger |-> led])
<1> DEFINE mkt == b.market[m]
           pos == b.position
           old == pos[m][t]
           cap == mkt.max_position_size
           lf == LongRows(pos, m)
           sf == ShortRows(pos, m)
           long == SatAdd(SatSub(mkt.open_interest_long, LongPart(dropped)), LongPart(added))
           short == SatAdd(SatSub(mkt.open_interest_short, ShortPart(dropped)), ShortPart(added))
           market1 == [b.market EXCEPT ![m] = Rebook(b.market[m], dropped, added)]
           position1 == [b.position EXCEPT ![m][t] = p]
<1>1. /\ mkt \in MarketRecord
      /\ \A i \in Traders : pos[m][i] \in PositionRecord
      /\ \A n \in Markets : pos[n] \in [Traders -> PositionRecord]
      /\ pos \in [Markets -> [Traders -> PositionRecord]]
      /\ b.market \in [Markets -> MarketRecord]
    BY DEF Sound, BookRecord
<1>2. /\ cap \in Nat /\ NumTraders * cap <= MaxU64
      /\ \A i \in Traders : pos[m][i].size \in Int
      /\ p.size \in Int
    BY <1>1, LedgerAssumption
       DEF Sound, MarketSound, MarketRecord, U64, PositionRecord, I64, MaxI64
<1>3. \A i \in Traders : Abs(pos[m][i].size) <= cap
    <2> SUFFICES ASSUME NEW i \in Traders PROVE Abs(pos[m][i].size) <= cap
        OBVIOUS
    <2>1. CASE pos[m][i].size = 0
        BY <1>2, <2>1, Magnitude
    <2>2. CASE pos[m][i].size # 0
        BY <2>2 DEF Sound, PositionSound
    <2>3. QED
        BY <2>1, <2>2
<1>4. /\ lf \in [Traders -> Nat] /\ sf \in [Traders -> Nat]
      /\ \A i \in Traders : lf[i] <= cap /\ sf[i] <= cap
      /\ lf[t] = LongPart(old.size) /\ sf[t] = ShortPart(old.size)
    <2>1. ASSUME NEW i \in Traders
          PROVE  /\ LongPart(pos[m][i].size) \in Nat
                 /\ ShortPart(pos[m][i].size) \in Nat
                 /\ LongPart(pos[m][i].size) <= cap
                 /\ ShortPart(pos[m][i].size) <= cap
        <3> DEFINE x == pos[m][i].size
        <3>1. x \in Int /\ Abs(x) <= cap
            BY <1>2, <1>3
        <3> HIDE DEF x
        <3>2. /\ LongPart(x) \in Nat /\ ShortPart(x) \in Nat /\ Abs(x) \in Nat
              /\ LongPart(x) <= Abs(x) /\ ShortPart(x) <= Abs(x)
            BY <3>1, Magnitude
        <3>3. LongPart(x) <= cap /\ ShortPart(x) <= cap
            BY <1>2, <3>1, <3>2
        <3>4. QED
            BY <3>2, <3>3 DEF x
    <2>2. QED
        BY <2>1 DEF LongRows, ShortRows
<1>5. /\ mkt.open_interest_long = SumTo(lf, NumTraders)
      /\ mkt.open_interest_short = SumTo(sf, NumTraders)
    BY DEF Sound, InterestExact
<1>6. /\ LongPart(p.size) \in Nat /\ ShortPart(p.size) \in Nat
      /\ LongPart(dropped) \in Nat /\ ShortPart(dropped) \in Nat
      /\ LongPart(added) \in Nat /\ ShortPart(added) \in Nat
      /\ LongPart(p.size) <= cap /\ ShortPart(p.size) <= cap
    <2> DEFINE x == p.size
    <2>1. x \in Int /\ Abs(x) <= cap
        BY <1>2
    <2> HIDE DEF x
    <2>2. /\ LongPart(x) \in Nat /\ ShortPart(x) \in Nat /\ Abs(x) \in Nat
          /\ LongPart(x) <= Abs(x) /\ ShortPart(x) <= Abs(x)
        BY <2>1, Magnitude
    <2>3. LongPart(x) <= cap /\ ShortPart(x) <= cap
        BY <1>2, <2>1, <2>2
    <2>4. QED
        BY <2>2, <2>3, Magnitude DEF x
<1>7. /\ long = SumTo([lf EXCEPT ![t] = LongPart(p.size)], NumTraders) /\ long \in U64
      /\ short = SumTo([sf EXCEPT ![t] = ShortPart(p.size)], NumTraders) /\ short \in U64
    <2> DEFINE pl == LongPart(p.size)
               ps == ShortPart(p.size)
               dl == LongPart(dropped)
               ds == ShortPart(dropped)
               al == LongPart(added)
               as == ShortPart(added)
    <2>1. /\ pl \in Nat /\ ps \in Nat /\ dl \in Nat /\ ds \in Nat /\ al \in Nat /\ as \in Nat
          /\ pl <= cap /\ ps <= cap
          /\ dl <= lf[t] /\ ds <= sf[t]
          /\ pl = lf[t] - dl + al
          /\ ps = sf[t] - ds + as
        BY <1>4, <1>6
    <2>1a. /\ lf \in [Traders -> Nat] /\ sf \in [Traders -> Nat]
           /\ \A i \in Traders : lf[i] <= cap
           /\ \A i \in Traders : sf[i] <= cap
           /\ cap \in Nat /\ NumTraders * cap <= MaxU64
        BY <1>2, <1>4
    <2> HIDE DEF lf, sf, pl, ps, dl, ds, al, as, cap
    <2>1b. \A f \in [Traders -> Nat] : \A d, a, v \in Nat :
              /\ d <= f[t] /\ v = f[t] - d + a /\ v <= cap
              /\ \A i \in Traders : f[i] <= cap
              => /\ SatAdd(SatSub(SumTo(f, NumTraders), d), a) = SumTo([f EXCEPT ![t] = v], NumTraders)
                 /\ SumTo([f EXCEPT ![t] = v], NumTraders) \in U64
        BY <2>1a, SideUpdate
    <2>2. /\ SatAdd(SatSub(SumTo(lf, NumTraders), dl), al) = SumTo([lf EXCEPT ![t] = pl], NumTraders)
          /\ SumTo([lf EXCEPT ![t] = pl], NumTraders) \in U64
        BY <2>1, <2>1a, <2>1b
    <2>3. /\ SatAdd(SatSub(SumTo(sf, NumTraders), ds), as) = SumTo([sf EXCEPT ![t] = ps], NumTraders)
          /\ SumTo([sf EXCEPT ![t] = ps], NumTraders) \in U64
        BY <2>1, <2>1a, <2>1b
    <2>4. QED
        BY <1>5, <2>2, <2>3 DEF pl, ps, dl, ds, al, as
<1> HIDE DEF long, short
<1> DEFINE new == Rebook(mkt, dropped, added)
<1>8. /\ new \in MarketRecord
      /\ new.active = mkt.active
      /\ new.initial_margin_bps = mkt.initial_margin_bps
      /\ new.maintenance_margin_bps = mkt.maintenance_margin_bps
      /\ new.max_position_size = mkt.max_position_size
      /\ new.mark_price = mkt.mark_price
      /\ new.open_interest_long = long /\ new.open_interest_short = short
    <2>1. new = [mkt EXCEPT !.open_interest_long = long, !.open_interest_short = short]
        BY DEF Rebook, long, short
    <2> HIDE DEF new, mkt
    <2>2. QED
        BY <1>1, <1>7, <2>1 DEF MarketRecord
<1> HIDE DEF new
<1>9. market1 = [b.market EXCEPT ![m] = new]
    BY DEF new
<1>10. /\ \A n \in Markets : market1[n] = IF n = m THEN new ELSE b.market[n]
       /\ market1 \in [Markets -> MarketRecord]
    BY <1>1, <1>8, <1>9
<1>11. /\ \A n \in Markets, i \in Traders :
             position1[n][i] = IF n = m /\ i = t THEN p ELSE pos[n][i]
       /\ position1 \in [Markets -> [Traders -> PositionRecord]]
    BY <1>1
<1> DEFINE c == [market |-> market1, position |-> position1, ledger |-> led]
<1> HIDE DEF market1, position1
<1>12. c \in BookRecord /\ c.market = market1 /\ c.position = position1
    BY <1>10, <1>11 DEF BookRecord
<1> HIDE DEF c
<1>13. ASSUME NEW n \in Markets
       PROVE  /\ MarketSound(c.market[n])
              /\ \A i \in Traders : PositionSound(c.market[n], c.position[n][i])
    <2>1. /\ MarketSound(b.market[n])
          /\ \A i \in Traders : PositionSound(b.market[n], pos[n][i])
        BY DEF Sound
    <2>2. /\ c.market[n].active = b.market[n].active
          /\ c.market[n].initial_margin_bps = b.market[n].initial_margin_bps
          /\ c.market[n].maintenance_margin_bps = b.market[n].maintenance_margin_bps
          /\ c.market[n].max_position_size = b.market[n].max_position_size
          /\ c.market[n].mark_price = b.market[n].mark_price
        BY <1>8, <1>10, <1>12
    <2>3. \A i \in Traders : PositionSound(b.market[n], c.position[n][i])
        BY <1>11, <1>12, <2>1
    <2> DEFINE mn == b.market[n]
               cn == c.market[n]
    <2>4. MarketSound(cn)
        BY <2>1, <2>2 DEF MarketSound
    <2>5. \A x : PositionSound(mn, x) => PositionSound(cn, x)
        BY <2>2 DEF PositionSound
    <2>6. QED
        BY <2>3, <2>4, <2>5
<1>14. ASSUME NEW n \in Markets PROVE InterestExact(c, n)
    <2>1. CASE n = m
        <3>1. /\ c.market[n].open_interest_long = long
              /\ c.market[n].open_interest_short = short
            BY <1>8, <1>10, <1>12, <2>1
        <3> DEFINE q == c.position[n]
        <3>a. \A i \in Traders : q[i].size = IF i = t THEN p.size ELSE pos[m][i].size
            BY <1>11, <1>12, <2>1
        <3> HIDE DEF q
        <3>b. [i \in Traders |-> LongPart(q[i].size)] = [lf EXCEPT ![t] = LongPart(p.size)]
            BY <3>a DEF LongRows
        <3>c. [i \in Traders |-> ShortPart(q[i].size)] = [sf EXCEPT ![t] = ShortPart(p.size)]
            BY <3>a DEF ShortRows
        <3>2. LongRows(c.position, n) = [lf EXCEPT ![t] = LongPart(p.size)]
            BY <3>b DEF LongRows, q
        <3>3. ShortRows(c.position, n) = [sf EXCEPT ![t] = ShortPart(p.size)]
            BY <3>c DEF ShortRows, q
        <3>4. QED
            BY <1>7, <3>1, <3>2, <3>3 DEF InterestExact
    <2>2. CASE n # m
        <3>1. c.market[n] = b.market[n]
            BY <1>10, <1>12, <2>2
        <3>2. LongRows(c.position, n) = LongRows(pos, n)
              /\ ShortRows(c.position, n) = ShortRows(pos, n)
            BY <1>11, <1>12, <2>2 DEF LongRows, ShortRows
        <3>3. QED
            BY <3>1, <3>2 DEF Sound, InterestExact
    <2>3. QED
        BY <2>1, <2>2
<1>15. Sound(c)
    BY <1>12, <1>13, <1>14 DEF Sound
<1>16. QED
    BY <1>15 DEF c, market1, position1

--------------------------------------------------------------------------------
(* Payments *)

LEMMA StateFacts ==
    ASSUME IInv, NEW m \in Markets, NEW t \in Traders
    PROVE  /\ position[m][t] \in PositionRecord
           /\ position[m][t].size \in Int
           /\ position[m][t].entry_price \in Nat
           /\ position[m][t].margin \in Nat
           /\ market[m].initial_margin_bps \in Nat
           /\ market[m].maintenance_margin_bps \in Nat
           /\ market[m].max_position_size \in Nat
           /\ market[m].mark_price \in Nat
           /\ market[m].active \in BOOLEAN
           /\ ledger \in Ledgers /\ vault_gate \in VaultGates
           /\ t \in Accounts /\ Pool \in Accounts /\ t # Pool /\ t # Insurance
           /\ Insurance \in Accounts /\ Pool # Insurance
<1>1. position[m][t] \in PositionRecord
    BY DEF IInv, TypeOK, PositionRecord
<1>2. market[m] \in [active : BOOLEAN, initial_margin_bps : U64, maintenance_margin_bps : U64,
                     max_position_size : U64, mark_price : U64,
                     open_interest_long : U64, open_interest_short : U64]
    BY DEF IInv, TypeOK
<1>3. U64 \subseteq Nat /\ I64 \subseteq Int
    BY LedgerAssumption DEF U64, I64, MaxI64
<1>4. ledger \in Ledgers /\ vault_gate \in VaultGates
    BY DEF IInv, TypeOK
<1>5. /\ t \in Accounts /\ Pool \in Accounts /\ t # Pool /\ t # Insurance
      /\ Insurance \in Accounts /\ Pool # Insurance
    BY EngineAssumption, LedgerAssumption DEF Accounts, Traders
<1>6. QED
    BY <1>1, <1>2, <1>3, <1>4, <1>5 DEF PositionRecord

\* A call to internal_transfer, or none when the amount is zero, keeps both
\* totals and moves exactly the amount between the two rows.
LEMMA PaidFacts ==
    ASSUME NEW led \in Ledgers, NEW from \in Accounts, NEW to \in Accounts, NEW amount \in Nat,
           vault_gate \in VaultGates, CanPay(led, from, to, amount)
    PROVE  /\ Paid(led, from, to, amount) \in Ledgers
           /\ TotalBalance(Paid(led, from, to, amount)) = TotalBalance(led)
           /\ TotalCollateral(Paid(led, from, to, amount)) = TotalCollateral(led)
           /\ \A a \in Accounts :
                /\ Spendable(led, a) \in Nat
                /\ Spendable(Paid(led, from, to, amount), a) =
                      IF a = from THEN Spendable(led, a) - amount
                      ELSE IF a = to THEN Spendable(led, a) + amount ELSE Spendable(led, a)
<1>1. \A a \in Accounts : Spendable(led, a) \in Nat
    BY LedgerAssumption DEF Spendable, Ledgers, U64
<1>2. CASE amount = 0
    BY <1>1, <1>2 DEF Paid
<1>3. CASE amount > 0
    <2>1. vault_gate.max_per_tx \in U64
        BY EngineAssumption
    <2>2. TransferAllowed(led, from, to, amount, vault_gate.max_per_tx)
        BY <1>3 DEF CanPay
    <2>3. Paid(led, from, to, amount) = Transferred(led, from, to, amount)
        BY <1>3 DEF Paid
    <2>4. QED
        BY <1>1, <2>1, <2>2, <2>3, TransferFacts
<1>4. QED
    BY <1>2, <1>3

\* Two calls in a row.
LEMMA PaidTwice ==
    ASSUME NEW led \in Ledgers, vault_gate \in VaultGates,
           NEW f1 \in Accounts, NEW t1 \in Accounts, NEW a1 \in Nat,
           NEW f2 \in Accounts, NEW t2 \in Accounts, NEW a2 \in Nat,
           CanPay(led, f1, t1, a1), CanPay(Paid(led, f1, t1, a1), f2, t2, a2)
    PROVE  LET after == Paid(Paid(led, f1, t1, a1), f2, t2, a2)
           IN  /\ after \in Ledgers
               /\ TotalBalance(after) = TotalBalance(led)
               /\ TotalCollateral(after) = TotalCollateral(led)
               /\ \A a \in Accounts :
                    /\ Spendable(led, a) \in Nat
                    /\ Spendable(after, a) =
                         Spendable(led, a) + (IF a = f1 THEN -a1 ELSE IF a = t1 THEN a1 ELSE 0)
                                           + (IF a = f2 THEN -a2 ELSE IF a = t2 THEN a2 ELSE 0)
<1> DEFINE mid == Paid(led, f1, t1, a1)
           after == Paid(mid, f2, t2, a2)
<1>1. CanPay(led, f1, t1, a1) /\ CanPay(mid, f2, t2, a2)
    OBVIOUS
<1>2. /\ mid \in Ledgers
      /\ TotalBalance(mid) = TotalBalance(led)
      /\ TotalCollateral(mid) = TotalCollateral(led)
      /\ \A a \in Accounts :
            /\ Spendable(led, a) \in Nat
            /\ Spendable(mid, a) = IF a = f1 THEN Spendable(led, a) - a1
                                   ELSE IF a = t1 THEN Spendable(led, a) + a1
                                   ELSE Spendable(led, a)
    BY <1>1, PaidFacts
<1> HIDE DEF mid
<1>3. /\ after \in Ledgers
      /\ TotalBalance(after) = TotalBalance(mid)
      /\ TotalCollateral(after) = TotalCollateral(mid)
      /\ \A a \in Accounts :
            /\ Spendable(mid, a) \in Nat
            /\ Spendable(after, a) = IF a = f2 THEN Spendable(mid, a) - a2
                                     ELSE IF a = t2 THEN Spendable(mid, a) + a2
                                     ELSE Spendable(mid, a)
    BY <1>1, <1>2, PaidFacts
<1> HIDE DEF after
<1>4. /\ after \in Ledgers
      /\ TotalBalance(after) = TotalBalance(led)
      /\ TotalCollateral(after) = TotalCollateral(led)
      /\ \A a \in Accounts :
            /\ Spendable(led, a) \in Nat
            /\ Spendable(after, a) =
                 Spendable(led, a) + (IF a = f1 THEN -a1 ELSE IF a = t1 THEN a1 ELSE 0)
                                   + (IF a = f2 THEN -a2 ELSE IF a = t2 THEN a2 ELSE 0)
    BY <1>2, <1>3
<1>5. QED
    BY <1>4 DEF after, mid

\* The two calls of an instruction.
LEMMA PaidTwiceFacts ==
    ASSUME IInv,
           NEW f1 \in Accounts, NEW t1 \in Accounts, NEW a1 \in Nat,
           NEW f2 \in Accounts, NEW t2 \in Accounts, NEW a2 \in Nat,
           PayTwice(f1, t1, a1, f2, t2, a2)
    PROVE  /\ ledger' \in Ledgers
           /\ TotalBalance(ledger') = TotalBalance(ledger)
           /\ TotalCollateral(ledger') = TotalCollateral(ledger)
           /\ \A a \in Accounts :
                Spendable(ledger', a) =
                    Spendable(ledger, a) + (IF a = f1 THEN -a1 ELSE IF a = t1 THEN a1 ELSE 0)
                                         + (IF a = f2 THEN -a2 ELSE IF a = t2 THEN a2 ELSE 0)
<1>1. ledger \in Ledgers /\ vault_gate \in VaultGates
    BY DEF IInv, TypeOK
<1>2. /\ CanPay(ledger, f1, t1, a1) /\ CanPay(Paid(ledger, f1, t1, a1), f2, t2, a2)
      /\ ledger' = Paid(Paid(ledger, f1, t1, a1), f2, t2, a2)
    BY DEF PayTwice, CanPayTwice
<1>3. QED
    BY <1>1, <1>2, PaidTwice

--------------------------------------------------------------------------------
(* The three instructions that fill a trade, as calls on a book *)

\* What a call that leaves a trader with position p does to a book.
LegDone(b, after, m, t, p) ==
    /\ Sound(after)
    /\ after.position = [b.position EXCEPT ![m][t] = p]
    /\ \A n \in Markets : /\ after.market[n].active = b.market[n].active
                          /\ after.market[n].initial_margin_bps = b.market[n].initial_margin_bps
    /\ TotalBalance(after.ledger) = TotalBalance(b.ledger)
    /\ TotalCollateral(after.ledger) = TotalCollateral(b.ledger)
    /\ \A a \in Accounts \ {t, Pool} : Spendable(after.ledger, a) = Spendable(b.ledger, a)
    /\ Spendable(after.ledger, Pool) + Spendable(after.ledger, t)
           = Spendable(b.ledger, Pool) + Spendable(b.ledger, t)
    /\ LET taken == Spendable(b.ledger, t) - Spendable(after.ledger, t)
       IN  taken > 0 => taken <= p.margin /\ p # b.position[m][t]

\* What a call brings the pool.
PoolGets(b, after, amount) ==
    Spendable(after.ledger, Pool) - Spendable(b.ledger, Pool) = amount

\* Rebooking a market changes its open interest only.
LEMMA RebookKeepsTerms ==
    ASSUME NEW b, Sound(b), NEW m \in Markets, NEW new,
           \E dropped, added : new = Rebook(b.market[m], dropped, added)
    PROVE  \A n \in Markets :
              /\ [b.market EXCEPT ![m] = new][n].active = b.market[n].active
              /\ [b.market EXCEPT ![m] = new][n].initial_margin_bps
                     = b.market[n].initial_margin_bps
<1>1. b.market \in [Markets -> MarketRecord]
    BY DEF Sound, BookRecord
<1>2. b.market[m] \in MarketRecord
    BY <1>1
<1>3. new.active = b.market[m].active /\ new.initial_margin_bps = b.market[m].initial_margin_bps
    <2> DEFINE mkt == b.market[m]
    <2>1. mkt \in MarketRecord
        BY <1>2
    <2>2. \E dropped, added : new = Rebook(mkt, dropped, added)
        OBVIOUS
    <2> HIDE DEF mkt
    <2>3. new.active = mkt.active /\ new.initial_margin_bps = mkt.initial_margin_bps
        BY <2>1, <2>2 DEF Rebook, MarketRecord
    <2>4. QED
        BY <2>3 DEF mkt
<1>4. QED
    BY <1>1, <1>3

LEMMA OpenLegStep ==
    ASSUME NEW b, Sound(b), vault_gate \in VaultGates, NEW m \in Markets, NEW t \in Traders,
           NEW size_delta \in Int, NEW fill_price \in Nat,
           OpenLegAllowed(b, m, t, size_delta, fill_price)
    PROVE  LET p == Grown(b, m, t, size_delta, fill_price)
           IN  /\ p \in PositionRecord
               /\ p.size = b.position[m][t].size + size_delta
               /\ LegDone(b, OpenLeg(b, m, t, size_delta, fill_price), m, t, p)
               /\ PoolGets(b, OpenLeg(b, m, t, size_delta, fill_price),
                           SatSub(p.margin, b.position[m][t].margin))
<1> DEFINE mkt == b.market[m]
           pos == b.position[m][t]
           new_size == pos.size + size_delta
           entry == EntryPrice(pos, new_size, fill_price)
           required == RequiredMargin(mkt.initial_margin_bps, Abs(new_size), entry)
           additional == SatSub(required, pos.margin)
           p == [size |-> new_size, entry_price |-> entry, margin |-> required]
           led == Paid(b.ledger, t, Pool, additional)
           after == [market |-> [b.market EXCEPT ![m] = Rebook(b.market[m], pos.size, new_size)],
                     position |-> [b.position EXCEPT ![m][t] = p], ledger |-> led]
<1>0. Grown(b, m, t, size_delta, fill_price) = p
    BY DEF Grown
<1>1. /\ mkt.active /\ fill_price > 0
      /\ new_size \in I64 /\ entry \in U64 /\ required \in U64
      /\ Abs(new_size) <= mkt.max_position_size
      /\ CanPay(b.ledger, t, Pool, additional)
    BY <1>0 DEF OpenLegAllowed, WithinLimit
<1>2. OpenLeg(b, m, t, size_delta, fill_price) = after
    BY <1>0 DEF OpenLeg
<1>3. /\ pos \in PositionRecord /\ pos.size \in Int /\ pos.margin \in Nat
      /\ b.ledger \in Ledgers /\ U64 \subseteq Nat
      /\ t \in Accounts /\ Pool \in Accounts /\ t # Pool
      /\ pos.size # 0 => pos.entry_price > 0
    BY BookFacts DEF PositionSound
<1>4. new_size \in Int /\ required \in Nat
    <2>1. new_size \in Int
        BY <1>3
    <2> HIDE DEF required
    <2>2. required \in Nat
        BY <1>1, <1>3
    <2>3. QED
        BY <2>1, <2>2
<1>5. entry > 0
    <2> DEFINE old == pos
               n == new_size
    <2>1. /\ old \in PositionRecord /\ n \in Int
          /\ old.size # 0 => old.entry_price > 0
        BY <1>3, <1>4
    <2>2. EntryPrice(old, n, fill_price) \in U64
        BY <1>1
    <2> HIDE DEF old, n
    <2>3. EntryPrice(old, n, fill_price) > 0
        BY <1>1, <2>1, <2>2, EntryPositive
    <2>4. QED
        BY <2>3 DEF old, n
<1> HIDE DEF entry
<1>6. additional \in Nat /\ additional <= required
    BY <1>3, <1>4 DEF SatSub
<1>6a. additional > 0 => required # pos.margin
    BY <1>3, <1>4 DEF SatSub
<1>7. PositionSound(mkt, p)
    <2>1. p.size = new_size /\ p.entry_price = entry /\ p.margin = required
        OBVIOUS
    <2>2. QED
        BY <1>1, <1>5, <2>1 DEF PositionSound
<1> HIDE DEF required, additional
<1>8. /\ led \in Ledgers
      /\ TotalBalance(led) = TotalBalance(b.ledger)
      /\ TotalCollateral(led) = TotalCollateral(b.ledger)
      /\ \A a \in Accounts :
            /\ Spendable(b.ledger, a) \in Nat
            /\ Spendable(led, a) = IF a = t THEN Spendable(b.ledger, a) - additional
                                   ELSE IF a = Pool THEN Spendable(b.ledger, a) + additional
                                   ELSE Spendable(b.ledger, a)
    BY <1>1, <1>3, <1>6, PaidFacts
<1> HIDE DEF led
<1>9. p \in PositionRecord /\ p.size = new_size /\ p.entry_price = entry /\ p.margin = required
    BY <1>1 DEF PositionRecord
<1>10. Sound(after)
    <2> DEFINE d == pos.size
               n == new_size
               r == p
    <2>1. /\ LongPart(d) \in Nat /\ ShortPart(d) \in Nat
          /\ LongPart(n) \in Nat /\ ShortPart(n) \in Nat
        BY <1>3, <1>4, Magnitude
    <2>2. /\ r \in PositionRecord /\ d \in Int /\ n \in Int
          /\ LongPart(d) <= LongPart(b.position[m][t].size)
          /\ ShortPart(d) <= ShortPart(b.position[m][t].size)
          /\ LongPart(r.size) = LongPart(b.position[m][t].size) - LongPart(d) + LongPart(n)
          /\ ShortPart(r.size) = ShortPart(b.position[m][t].size) - ShortPart(d) + ShortPart(n)
        BY <1>3, <1>4, <1>9, <2>1
    <2>3. /\ Abs(r.size) <= b.market[m].max_position_size
          /\ b.market[m].active /\ PositionSound(b.market[m], r)
        BY <1>1, <1>7, <1>9
    <2> HIDE DEF d, n, r
    <2>4. Sound([market |-> [b.market EXCEPT ![m] = Rebook(b.market[m], d, n)],
                 position |-> [b.position EXCEPT ![m][t] = r], ledger |-> led])
        BY <1>8, <2>2, <2>3, BookStep
    <2>5. QED
        BY <2>4 DEF d, n, r
<1>11. LegDone(b, after, m, t, p)
    <2> DEFINE new == Rebook(b.market[m], pos.size, new_size)
    <2>1. after.ledger = led /\ after.position = [b.position EXCEPT ![m][t] = p]
          /\ after.market = [b.market EXCEPT ![m] = new]
        OBVIOUS
    <2>1a. \E dropped, added : new = Rebook(b.market[m], dropped, added)
        OBVIOUS
    <2> HIDE DEF after, new
    <2>2. \A n \in Markets : /\ after.market[n].active = b.market[n].active
                             /\ after.market[n].initial_margin_bps = b.market[n].initial_margin_bps
        BY <2>1, <2>1a, RebookKeepsTerms
    <2>3. /\ \A a \in Accounts \ {t, Pool} : Spendable(led, a) = Spendable(b.ledger, a)
          /\ Spendable(led, Pool) + Spendable(led, t)
               = Spendable(b.ledger, Pool) + Spendable(b.ledger, t)
        BY <1>3, <1>6, <1>8
    <2>4. Spendable(b.ledger, t) - Spendable(led, t) = additional
        BY <1>3, <1>6, <1>8
    <2>5. additional > 0 => additional <= p.margin /\ p # pos
        BY <1>6, <1>6a, <1>9
    <2> HIDE DEF p
    <2>6. QED
        BY <1>8, <1>10, <2>1, <2>2, <2>3, <2>4, <2>5 DEF LegDone
<1>12. PoolGets(b, after, SatSub(p.margin, pos.margin))
    <2>1. after.ledger = led /\ SatSub(p.margin, pos.margin) = additional
        BY <1>9 DEF additional
    <2>2. Spendable(led, Pool) = Spendable(b.ledger, Pool) + additional
          /\ Spendable(b.ledger, Pool) \in Nat
        BY <1>3, <1>8
    <2> HIDE DEF after, p
    <2>3. QED
        BY <1>6, <2>1, <2>2 DEF PoolGets
<1> HIDE DEF after, p
<1>13. QED
    BY <1>0, <1>2, <1>9, <1>11, <1>12

LEMMA EmptyRecord ==
    /\ NoPosition \in PositionRecord
    /\ NoPosition.size = 0 /\ NoPosition.entry_price = 0 /\ NoPosition.margin = 0
BY LedgerAssumption DEF NoPosition, PositionRecord, I64, U64, MaxI64

\* Emptying a position keeps a book sound.
LEMMA EmptyBook ==
    ASSUME NEW b, Sound(b), NEW m \in Markets, NEW t \in Traders, NEW led \in Ledgers,
           b.position[m][t].size # 0
    PROVE  Sound([market |-> [b.market EXCEPT ![m] = Rebook(b.market[m], b.position[m][t].size, 0)],
                  position |-> [b.position EXCEPT ![m][t] = NoPosition], ledger |-> led])
<1> DEFINE d == b.position[m][t].size
           r == NoPosition
<1>1. /\ d \in Int /\ b.market[m].initial_margin_bps \in Nat
      /\ b.market[m].max_position_size \in Nat /\ b.market[m].active
    BY BookFacts DEF PositionSound
<1>2. /\ LongPart(d) \in Nat /\ ShortPart(d) \in Nat
      /\ LongPart(0) = 0 /\ ShortPart(0) = 0 /\ Abs(0) = 0
    BY <1>1, Magnitude
<1>3. /\ r \in PositionRecord /\ r.size = 0 /\ r.entry_price = 0 /\ r.margin = 0
    BY EmptyRecord
<1>4. /\ LongPart(d) <= LongPart(b.position[m][t].size)
      /\ ShortPart(d) <= ShortPart(b.position[m][t].size)
      /\ LongPart(r.size) = LongPart(b.position[m][t].size) - LongPart(d) + LongPart(0)
      /\ ShortPart(r.size) = ShortPart(b.position[m][t].size) - ShortPart(d) + ShortPart(0)
    BY <1>2, <1>3
<1>5. /\ Abs(r.size) <= b.market[m].max_position_size
      /\ PositionSound(b.market[m], r)
    BY <1>1, <1>2, <1>3, NoMarginForNothing DEF PositionSound
<1> HIDE DEF d, r
<1>6. \A a \in Int :
          /\ LongPart(r.size) = LongPart(b.position[m][t].size) - LongPart(d) + LongPart(a)
          /\ ShortPart(r.size) = ShortPart(b.position[m][t].size) - ShortPart(d) + ShortPart(a)
          => Sound([market |-> [b.market EXCEPT ![m] = Rebook(b.market[m], d, a)],
                    position |-> [b.position EXCEPT ![m][t] = r], ledger |-> led])
    BY <1>1, <1>3, <1>4, <1>5, BookStep
<1>7. PICK z \in Int : z = 0
    OBVIOUS
<1>8. Sound([market |-> [b.market EXCEPT ![m] = Rebook(b.market[m], d, z)],
             position |-> [b.position EXCEPT ![m][t] = r], ledger |-> led])
    BY <1>4, <1>6, <1>7
<1>9. QED
    BY <1>7, <1>8 DEF d, r

LEMMA CloseLegStep ==
    ASSUME NEW b, Sound(b), vault_gate \in VaultGates, NEW m \in Markets, NEW t \in Traders,
           NEW fill_price \in Nat, CloseLegAllowed(b, m, t, fill_price)
    PROVE  /\ LegDone(b, CloseLeg(b, m, t, fill_price), m, t, NoPosition)
           /\ PoolGets(b, CloseLeg(b, m, t, fill_price),
                       -OwedOnClose(b.position[m][t], fill_price))
           /\ OwedOnClose(b.position[m][t], fill_price) \in Nat
<1> DEFINE pos == b.position[m][t]
           owed == OwedOnClose(pos, fill_price)
           led == Paid(b.ledger, Pool, t, owed)
           after == [market |-> [b.market EXCEPT ![m] = Rebook(b.market[m], pos.size, 0)],
                     position |-> [b.position EXCEPT ![m][t] = NoPosition], ledger |-> led]
<1>1. pos.size # 0 /\ owed \in U64 /\ CanPay(b.ledger, Pool, t, owed)
    BY DEF CloseLegAllowed
<1>2. CloseLeg(b, m, t, fill_price) = after
    BY DEF CloseLeg, Emptied
<1>3. /\ b.ledger \in Ledgers /\ U64 \subseteq Nat
      /\ t \in Accounts /\ Pool \in Accounts /\ t # Pool
    BY BookFacts
<1>4. owed \in Nat
    BY <1>1, <1>3
<1> HIDE DEF owed
<1>5. /\ led \in Ledgers
      /\ TotalBalance(led) = TotalBalance(b.ledger)
      /\ TotalCollateral(led) = TotalCollateral(b.ledger)
      /\ \A a \in Accounts :
            /\ Spendable(b.ledger, a) \in Nat
            /\ Spendable(led, a) = IF a = Pool THEN Spendable(b.ledger, a) - owed
                                   ELSE IF a = t THEN Spendable(b.ledger, a) + owed
                                   ELSE Spendable(b.ledger, a)
    BY <1>1, <1>3, <1>4, PaidFacts
<1> HIDE DEF led
<1>6. Sound(after)
    BY <1>1, <1>5, EmptyBook
<1>7. LegDone(b, after, m, t, NoPosition)
    <2> DEFINE new == Rebook(b.market[m], pos.size, 0)
    <2>1. after.ledger = led /\ after.position = [b.position EXCEPT ![m][t] = NoPosition]
          /\ after.market = [b.market EXCEPT ![m] = new]
        OBVIOUS
    <2>1a. \E dropped, added : new = Rebook(b.market[m], dropped, added)
        OBVIOUS
    <2> HIDE DEF after, new
    <2>2. \A n \in Markets : /\ after.market[n].active = b.market[n].active
                             /\ after.market[n].initial_margin_bps = b.market[n].initial_margin_bps
        BY <2>1, <2>1a, RebookKeepsTerms
    <2>3. /\ \A a \in Accounts \ {t, Pool} : Spendable(led, a) = Spendable(b.ledger, a)
          /\ Spendable(led, Pool) + Spendable(led, t)
               = Spendable(b.ledger, Pool) + Spendable(b.ledger, t)
          /\ ~ (Spendable(b.ledger, t) - Spendable(led, t) > 0)
        BY <1>3, <1>4, <1>5
    <2>4. QED
        BY <1>5, <1>6, <2>1, <2>2, <2>3 DEF LegDone
<1>8. PoolGets(b, after, -owed)
    <2>1. after.ledger = led
        OBVIOUS
    <2>2. Spendable(led, Pool) = Spendable(b.ledger, Pool) - owed
          /\ Spendable(b.ledger, Pool) \in Nat
        BY <1>3, <1>5
    <2> HIDE DEF after
    <2>3. QED
        BY <1>4, <2>1, <2>2 DEF PoolGets
<1> HIDE DEF after
<1>9. QED
    BY <1>2, <1>4, <1>7, <1>8 DEF owed

\* Dropping the part closed and adding the flipped side leaves each side's
\* open interest at the new size.
LEMMA ClosedParts ==
    ASSUME NEW old \in Int, NEW new \in Int, old # 0, new # 0,
           Sign(old) = Sign(new) => Abs(new) < Abs(old)
    PROVE  LET closed == ClosedSize(old, new)
               added == IF Sign(old) # Sign(new) THEN new ELSE 0
           IN  /\ closed \in Int /\ added \in Int
               /\ LongPart(closed) <= LongPart(old) /\ ShortPart(closed) <= ShortPart(old)
               /\ LongPart(new) = LongPart(old) - LongPart(closed) + LongPart(added)
               /\ ShortPart(new) = ShortPart(old) - ShortPart(closed) + ShortPart(added)
<1>1. CASE Sign(old) # Sign(new)
    BY <1>1 DEF ClosedSize, LongPart, ShortPart
<1>2. CASE Sign(old) = Sign(new)
    BY <1>2 DEF ClosedSize, LongPart, ShortPart, Sign, Abs
<1>3. QED
    BY <1>1, <1>2

LEMMA ReduceLegStep ==
    ASSUME NEW b, Sound(b), vault_gate \in VaultGates, NEW m \in Markets, NEW t \in Traders,
           NEW size_delta \in Int, NEW fill_price \in U64,
           ReduceLegAllowed(b, m, t, size_delta, fill_price)
    PROVE  LET p == Shrunk(b, m, t, size_delta, fill_price)
           IN  /\ p \in PositionRecord
               /\ p.size = b.position[m][t].size + size_delta
               /\ LegDone(b, ReduceLeg(b, m, t, size_delta, fill_price), m, t, p)
               /\ LET locked == LockedOnFlip(b.position[m][t], p)
                      owed == OwedOnReduce(b.position[m][t], p, fill_price)
                  IN  /\ locked \in Nat /\ owed \in Nat
                      /\ PoolGets(b, ReduceLeg(b, m, t, size_delta, fill_price), locked - owed)
<1> DEFINE mkt == b.market[m]
           pos == b.position[m][t]
           new_size == pos.size + size_delta
           is_flip == Sign(pos.size) # Sign(new_size)
           closed == ClosedSize(pos.size, new_size)
           added == IF is_flip THEN new_size ELSE 0
           entry == IF is_flip THEN fill_price ELSE pos.entry_price
           required == RequiredMargin(mkt.initial_margin_bps, Abs(new_size), entry)
           p == [size |-> new_size, entry_price |-> entry, margin |-> required]
           lock_new == LockedOnFlip(pos, p)
           payout == OwedOnReduce(pos, p, fill_price)
           led == Paid(Paid(b.ledger, t, Pool, lock_new), Pool, t, payout)
           after == [market |-> [b.market EXCEPT ![m] = Rebook(b.market[m], closed, added)],
                     position |-> [b.position EXCEPT ![m][t] = p], ledger |-> led]
<1>0. Shrunk(b, m, t, size_delta, fill_price) = p /\ p.size = new_size
      /\ p.entry_price = entry /\ p.margin = required
    BY DEF Shrunk, IsFlip
<1>1. /\ size_delta # 0 /\ fill_price > 0 /\ pos.size # 0
      /\ new_size \in I64 /\ new_size # 0
      /\ IF is_flip THEN mkt.active ELSE Abs(new_size) < Abs(pos.size)
      /\ Abs(new_size) <= mkt.max_position_size
      /\ required \in U64 /\ payout \in U64
      /\ CanPay(b.ledger, t, Pool, lock_new)
      /\ CanPay(Paid(b.ledger, t, Pool, lock_new), Pool, t, payout)
    BY <1>0 DEF ReduceLegAllowed, WithinLimit, IsFlip
<1>2. ReduceLeg(b, m, t, size_delta, fill_price) = after
    BY <1>0 DEF ReduceLeg, IsFlip
<1>3. /\ pos \in PositionRecord /\ pos.size \in Int /\ pos.margin \in Nat
      /\ pos.entry_price \in U64 /\ U64 \subseteq Nat /\ b.ledger \in Ledgers
      /\ t \in Accounts /\ Pool \in Accounts /\ t # Pool
      /\ pos.entry_price > 0 /\ mkt.active
    BY <1>1, BookFacts DEF PositionSound
<1>4. /\ new_size \in Int /\ required \in Nat /\ payout \in Nat /\ lock_new \in Nat
      /\ lock_new <= required
    <2>1. new_size \in Int
        BY <1>3
    <2>2. lock_new = IF is_flip THEN required ELSE 0
        BY <1>0 DEF LockedOnFlip, IsFlip
    <2> HIDE DEF required, payout, lock_new
    <2>3. required \in Nat /\ payout \in Nat
        BY <1>1, <1>3
    <2>4. lock_new \in Nat /\ lock_new <= required
        BY <2>2, <2>3
    <2>5. QED
        BY <2>1, <2>3, <2>4
<1>5. /\ closed \in Int /\ added \in Int
      /\ LongPart(closed) <= LongPart(pos.size) /\ ShortPart(closed) <= ShortPart(pos.size)
      /\ LongPart(new_size) = LongPart(pos.size) - LongPart(closed) + LongPart(added)
      /\ ShortPart(new_size) = ShortPart(pos.size) - ShortPart(closed) + ShortPart(added)
    <2> DEFINE o == pos.size
               n == new_size
    <2>1. o \in Int /\ n \in Int /\ o # 0 /\ n # 0
          /\ (Sign(o) = Sign(n) => Abs(n) < Abs(o))
        BY <1>1, <1>3, <1>4
    <2> HIDE DEF o, n
    <2>2. LET c == ClosedSize(o, n)
              a == IF Sign(o) # Sign(n) THEN n ELSE 0
          IN  /\ c \in Int /\ a \in Int
              /\ LongPart(c) <= LongPart(o) /\ ShortPart(c) <= ShortPart(o)
              /\ LongPart(n) = LongPart(o) - LongPart(c) + LongPart(a)
              /\ ShortPart(n) = ShortPart(o) - ShortPart(c) + ShortPart(a)
        BY <2>1, ClosedParts
    <2>3. QED
        BY <2>2 DEF o, n
<1>6. entry \in U64 /\ entry > 0
    BY <1>1, <1>3
<1> HIDE DEF entry, closed, added
<1>7. p \in PositionRecord
    BY <1>1, <1>6 DEF PositionRecord
<1>8. PositionSound(mkt, p)
    BY <1>0, <1>1, <1>3, <1>6 DEF PositionSound
<1> HIDE DEF lock_new, payout, required
<1>9. /\ led \in Ledgers
      /\ TotalBalance(led) = TotalBalance(b.ledger)
      /\ TotalCollateral(led) = TotalCollateral(b.ledger)
      /\ \A a \in Accounts :
            /\ Spendable(b.ledger, a) \in Nat
            /\ Spendable(led, a) =
                 Spendable(b.ledger, a)
                   + (IF a = t THEN -lock_new ELSE IF a = Pool THEN lock_new ELSE 0)
                   + (IF a = Pool THEN -payout ELSE IF a = t THEN payout ELSE 0)
    BY <1>1, <1>3, <1>4, PaidTwice
<1> HIDE DEF led
<1>10. Sound(after)
    <2> DEFINE r == p
    <2>1. /\ r \in PositionRecord
          /\ LongPart(closed) <= LongPart(b.position[m][t].size)
          /\ ShortPart(closed) <= ShortPart(b.position[m][t].size)
          /\ LongPart(r.size) = LongPart(b.position[m][t].size) - LongPart(closed) + LongPart(added)
          /\ ShortPart(r.size) = ShortPart(b.position[m][t].size) - ShortPart(closed) + ShortPart(added)
        BY <1>0, <1>5, <1>7
    <2>2. /\ Abs(r.size) <= b.market[m].max_position_size
          /\ b.market[m].active /\ PositionSound(b.market[m], r)
        BY <1>0, <1>1, <1>3, <1>8
    <2> HIDE DEF r
    <2>3. Sound([market |-> [b.market EXCEPT ![m] = Rebook(b.market[m], closed, added)],
                 position |-> [b.position EXCEPT ![m][t] = r], ledger |-> led])
        BY <1>5, <1>9, <2>1, <2>2, BookStep
    <2>4. QED
        BY <2>3 DEF r
<1>11. LegDone(b, after, m, t, p)
    <2> DEFINE new == Rebook(b.market[m], closed, added)
    <2>1. after.ledger = led /\ after.position = [b.position EXCEPT ![m][t] = p]
          /\ after.market = [b.market EXCEPT ![m] = new]
        OBVIOUS
    <2>1a. \E x, y : new = Rebook(b.market[m], x, y)
        OBVIOUS
    <2> HIDE DEF after, new
    <2>2. \A n \in Markets : /\ after.market[n].active = b.market[n].active
                             /\ after.market[n].initial_margin_bps = b.market[n].initial_margin_bps
        BY <2>1, <2>1a, RebookKeepsTerms
    <2>3. /\ \A a \in Accounts \ {t, Pool} : Spendable(led, a) = Spendable(b.ledger, a)
          /\ Spendable(led, Pool) + Spendable(led, t)
               = Spendable(b.ledger, Pool) + Spendable(b.ledger, t)
        BY <1>3, <1>4, <1>9
    <2>4. Spendable(b.ledger, t) - Spendable(led, t) <= required
        BY <1>3, <1>4, <1>9
    <2>5. p # pos /\ p.margin = required
        BY <1>0, <1>1, <1>3
    <2> HIDE DEF p
    <2>6. QED
        BY <1>9, <1>10, <2>1, <2>2, <2>3, <2>4, <2>5 DEF LegDone
<1>12. PoolGets(b, after, lock_new - payout)
    <2>1. after.ledger = led
        OBVIOUS
    <2>2. Spendable(led, Pool) = Spendable(b.ledger, Pool) + lock_new + (-payout)
          /\ Spendable(b.ledger, Pool) \in Nat
        BY <1>3, <1>9
    <2> HIDE DEF after
    <2>3. QED
        BY <1>4, <2>1, <2>2 DEF PoolGets
<1> HIDE DEF after, p
<1>13. QED
    BY <1>0, <1>2, <1>4, <1>7, <1>11, <1>12 DEF lock_new, payout

--------------------------------------------------------------------------------
(* The four trading instructions *)

\* The calls of TradeRouting are the engine's instructions: what a venue does
\* to a book by one call is what the instruction does to the engine's state.
THEOREM LegsAreInstructions ==
    ASSUME NEW op, NEW m \in Markets, NEW t \in Traders, NEW size_delta, NEW fill_price
    PROVE  LET Called(allowed, after) == /\ op \in operators /\ ~ paused
                                         /\ allowed /\ Becomes(after)
                                         /\ UNCHANGED <<admin, engine_pool, vault_gate>>
           IN  /\ OpenPosition(op, m, t, size_delta, fill_price)
                    <=> Called(OpenLegAllowed(Books, m, t, size_delta, fill_price),
                               OpenLeg(Books, m, t, size_delta, fill_price))
               /\ ClosePosition(op, m, t, fill_price)
                    <=> Called(CloseLegAllowed(Books, m, t, fill_price),
                               CloseLeg(Books, m, t, fill_price))
               /\ ReducePosition(op, m, t, size_delta, fill_price)
                    <=> Called(ReduceLegAllowed(Books, m, t, size_delta, fill_price),
                               ReduceLeg(Books, m, t, size_delta, fill_price))
<1>1. OpenPosition(op, m, t, size_delta, fill_price)
        <=> /\ op \in operators /\ ~ paused
            /\ OpenLegAllowed(Books, m, t, size_delta, fill_price)
            /\ Becomes(OpenLeg(Books, m, t, size_delta, fill_price))
            /\ UNCHANGED <<admin, engine_pool, vault_gate>>
    BY DEF OpenPosition, OpenLegAllowed, OpenLeg, Becomes, Books, Grown
<1>2. ClosePosition(op, m, t, fill_price)
        <=> /\ op \in operators /\ ~ paused
            /\ CloseLegAllowed(Books, m, t, fill_price)
            /\ Becomes(CloseLeg(Books, m, t, fill_price))
            /\ UNCHANGED <<admin, engine_pool, vault_gate>>
    BY DEF ClosePosition, CloseLegAllowed, CloseLeg, Becomes, Books, OwedOnClose
<1>3. ReducePosition(op, m, t, size_delta, fill_price)
        <=> /\ op \in operators /\ ~ paused
            /\ ReduceLegAllowed(Books, m, t, size_delta, fill_price)
            /\ Becomes(ReduceLeg(Books, m, t, size_delta, fill_price))
            /\ UNCHANGED <<admin, engine_pool, vault_gate>>
    BY DEF ReducePosition, ReduceLegAllowed, ReduceLeg, Becomes, Books, Shrunk, IsFlip,
           RealizedPnl, ReleasedMargin, LockedOnFlip, OwedOnReduce, PayTwice, CanPayTwice
<1>4. QED
    BY <1>1, <1>2, <1>3

\* What an instruction may do to the ledger: keep both totals.
LedgerKept ==
    /\ ledger' \in Ledgers
    /\ TotalBalance(ledger') = TotalBalance(ledger)
    /\ TotalCollateral(ledger') = TotalCollateral(ledger)

\* Beyond that, no trader pays more than the margin of one own open position.
OthersUntouched ==
    \A a \in Traders :
        LET taken == Spendable(ledger, a) - Spendable(ledger', a)
        IN  taken > 0 => \E m \in Markets : /\ position'[m][a] # position[m][a]
                                            /\ taken <= position'[m][a].margin

\* A trader and the pool settle one position between the two of them.
Settled(m, t) ==
    /\ Spendable(ledger', Pool) + Spendable(ledger', t) = Spendable(ledger, Pool) + Spendable(ledger, t)
    /\ \E p \in PositionRecord : position' = [position EXCEPT ![m][t] = p]

\* One call on the engine's own books.
LEMMA CallStep ==
    ASSUME IInv, NEW m \in Markets, NEW t \in Traders, NEW p \in PositionRecord, NEW after,
           LegDone(Books, after, m, t, p), Becomes(after),
           UNCHANGED <<admin, engine_pool, vault_gate>>
    PROVE  IInv' /\ LedgerKept /\ OthersUntouched /\ Settled(m, t)
<1>1. /\ Books.market = market /\ Books.position = position /\ Books.ledger = ledger
      /\ market' = after.market /\ position' = after.position /\ ledger' = after.ledger
    BY DEF Books, Becomes
<1>2. Sound(Books)'
    <2>1. Sound(after) /\ after \in BookRecord
        BY DEF LegDone, Sound
    <2>2. Books' = after
        BY <1>1, <2>1 DEF Books, BookRecord
    <2>3. Sound(Books')
        BY <2>1, <2>2
    <2>4. QED
        BY <2>3 DEF Sound, InterestExact, PositionSound, MarketSound
<1>3. AdminTyped'
    BY SoundBooks DEF AdminTyped, admin
<1>4. IInv'
    BY <1>2, <1>3, SoundBooks
<1>5. LedgerKept
    BY <1>1, <1>4 DEF LegDone, LedgerKept, IInv, TypeOK
<1>6. Settled(m, t)
    BY <1>1 DEF LegDone, Settled
<1>7. OthersUntouched
    <2> SUFFICES ASSUME NEW a \in Traders, Spendable(ledger, a) - Spendable(ledger', a) > 0
                 PROVE  \E n \in Markets :
                            /\ position'[n][a] # position[n][a]
                            /\ Spendable(ledger, a) - Spendable(ledger', a) <= position'[n][a].margin
        BY DEF OthersUntouched
    <2>1. a \in Accounts /\ a # Pool /\ ledger \in Ledgers
        BY StateFacts
    <2>2. Spendable(ledger, a) \in Nat
        BY <2>1, LedgerAssumption DEF Spendable, Ledgers, U64
    <2>3. a = t
        BY <1>1, <2>1, <2>2 DEF LegDone
    <2>4. position'[m][t] = p
        BY <1>1 DEF LegDone, IInv, TypeOK
    <2>5. QED
        BY <1>1, <2>3, <2>4 DEF LegDone
<1>8. QED
    BY <1>4, <1>5, <1>6, <1>7

LEMMA OpenPositionStep ==
    ASSUME IInv, NEW op, NEW m \in Markets, NEW t \in Traders,
           NEW size_delta \in Int, NEW fill_price \in Nat,
           OpenPosition(op, m, t, size_delta, fill_price)
    PROVE  IInv' /\ LedgerKept /\ OthersUntouched /\ Settled(m, t) /\ ~ paused
<1>1. /\ ~ paused /\ OpenLegAllowed(Books, m, t, size_delta, fill_price)
      /\ Becomes(OpenLeg(Books, m, t, size_delta, fill_price))
      /\ UNCHANGED <<admin, engine_pool, vault_gate>>
    BY LegsAreInstructions
<1>2. Sound(Books) /\ vault_gate \in VaultGates
    BY SoundBooks DEF AdminTyped
<1> DEFINE after == OpenLeg(Books, m, t, size_delta, fill_price)
           p == Grown(Books, m, t, size_delta, fill_price)
           b == Books
<1>3. p \in PositionRecord /\ LegDone(b, after, m, t, p)
    <2> HIDE DEF b
    <2>1. Sound(b) /\ OpenLegAllowed(b, m, t, size_delta, fill_price)
        BY <1>1, <1>2 DEF b
    <2>2. /\ Grown(b, m, t, size_delta, fill_price) \in PositionRecord
          /\ LegDone(b, OpenLeg(b, m, t, size_delta, fill_price), m, t,
                     Grown(b, m, t, size_delta, fill_price))
        BY <1>2, <2>1, OpenLegStep
    <2>3. QED
        BY <2>2 DEF b
<1> HIDE DEF after, p
<1>4. QED
    BY <1>1, <1>3, CallStep DEF after

LEMMA ClosePositionStep ==
    ASSUME IInv, NEW op, NEW m \in Markets, NEW t \in Traders, NEW fill_price \in Nat,
           ClosePosition(op, m, t, fill_price)
    PROVE  IInv' /\ LedgerKept /\ OthersUntouched /\ Settled(m, t) /\ ~ paused
<1>1. /\ ~ paused /\ CloseLegAllowed(Books, m, t, fill_price)
      /\ Becomes(CloseLeg(Books, m, t, fill_price))
      /\ UNCHANGED <<admin, engine_pool, vault_gate>>
    BY LegsAreInstructions
<1>2. Sound(Books) /\ vault_gate \in VaultGates
    BY SoundBooks DEF AdminTyped
<1> DEFINE after == CloseLeg(Books, m, t, fill_price)
           b == Books
<1>3. LegDone(b, after, m, t, NoPosition)
    <2> HIDE DEF b
    <2>1. Sound(b) /\ CloseLegAllowed(b, m, t, fill_price)
        BY <1>1, <1>2 DEF b
    <2>2. LegDone(b, CloseLeg(b, m, t, fill_price), m, t, NoPosition)
        BY <1>2, <2>1, CloseLegStep
    <2>3. QED
        BY <2>2 DEF b
<1> HIDE DEF after
<1>4. QED
    BY <1>1, <1>3, EmptyRecord, CallStep DEF after

LEMMA ReducePositionStep ==
    ASSUME IInv, NEW op, NEW m \in Markets, NEW t \in Traders,
           NEW size_delta \in Int, NEW fill_price \in U64,
           ReducePosition(op, m, t, size_delta, fill_price)
    PROVE  IInv' /\ LedgerKept /\ OthersUntouched /\ Settled(m, t) /\ ~ paused
<1>1. /\ ~ paused /\ ReduceLegAllowed(Books, m, t, size_delta, fill_price)
      /\ Becomes(ReduceLeg(Books, m, t, size_delta, fill_price))
      /\ UNCHANGED <<admin, engine_pool, vault_gate>>
    BY LegsAreInstructions
<1>2. Sound(Books) /\ vault_gate \in VaultGates
    BY SoundBooks DEF AdminTyped
<1> DEFINE after == ReduceLeg(Books, m, t, size_delta, fill_price)
           p == Shrunk(Books, m, t, size_delta, fill_price)
           b == Books
<1>3. p \in PositionRecord /\ LegDone(b, after, m, t, p)
    <2> HIDE DEF b
    <2>1. Sound(b) /\ ReduceLegAllowed(b, m, t, size_delta, fill_price)
        BY <1>1, <1>2 DEF b
    <2>2. /\ Shrunk(b, m, t, size_delta, fill_price) \in PositionRecord
          /\ LegDone(b, ReduceLeg(b, m, t, size_delta, fill_price), m, t,
                     Shrunk(b, m, t, size_delta, fill_price))
        BY <1>2, <2>1, ReduceLegStep
    <2>3. QED
        BY <2>2 DEF b
<1> HIDE DEF after, p
<1>4. QED
    BY <1>1, <1>3, CallStep DEF after

\* Emptying a position: what ClosePosition and LiquidatePosition share.
Empty(m, t) ==
    /\ market' = [market EXCEPT ![m] = Rebook(market[m], position[m][t].size, 0)]
    /\ position' = [position EXCEPT ![m][t] = NoPosition]
    /\ UNCHANGED <<admin, engine_pool, vault_gate>>

LEMMA EmptyStep ==
    ASSUME IInv, NEW m \in Markets, NEW t \in Traders,
           position[m][t].size # 0, ledger' \in Ledgers, Empty(m, t)
    PROVE  IInv'
<1> DEFINE b == Books
           after == [market |-> [b.market EXCEPT ![m] = Rebook(b.market[m], b.position[m][t].size, 0)],
                     position |-> [b.position EXCEPT ![m][t] = NoPosition], ledger |-> ledger']
<1>1. Sound(b) /\ b.position[m][t].size # 0
    BY SoundBooks DEF Books
<1>2. Books' = after
    BY DEF Books, Empty
<1> HIDE DEF b
<1>3. Sound(after)
    BY <1>1, EmptyBook
<1> HIDE DEF after
<1>4. Sound(Books')
    BY <1>2, <1>3
<1>5. Sound(Books)'
    BY <1>4 DEF Sound, InterestExact, PositionSound, MarketSound
<1>6. AdminTyped'
    BY SoundBooks DEF AdminTyped, admin, Empty
<1>7. QED
    BY <1>5, <1>6, SoundBooks

LEMMA LiquidatePositionStep ==
    ASSUME IInv, NEW op, NEW m \in Markets, NEW t \in Traders,
           NEW keeper \in Accounts, NEW insurance \in Accounts,
           LiquidatePosition(op, m, t, keeper, insurance)
    PROVE  /\ IInv' /\ LedgerKept /\ ~ paused
           /\ insurance_fund_balance # NoAccount => OthersUntouched
<1> DEFINE mkt == market[m]
           pos == position[m][t]
           pnl == Pnl(pos.size, pos.entry_price, mkt.mark_price)
           notional == Notional(Abs(pos.size), mkt.mark_price)
           left == pos.margin + pnl
           bounty == Share(KEEPER_REWARD_BAD_DEBT_BPS, notional)
           reward == AtMost(left \div 2, Share(KEEPER_REWARD_CAP_BPS, notional))
           rest == left - reward
<1>1. /\ ~ paused /\ pos.size # 0
      /\ insurance_fund_balance \in {insurance, NoAccount}
      /\ IF left <= 0
         THEN /\ bounty \in U64
              /\ CanPay(ledger, insurance, keeper, bounty)
              /\ ledger' = Paid(ledger, insurance, keeper, bounty)
         ELSE /\ reward \in U64 /\ rest \in U64
              /\ PayTwice(Pool, keeper, reward, Pool, insurance, rest)
    BY DEF LiquidatePosition, LiquidationAllowed, LeftAtMark, KeeperBounty, KeeperReward,
           NotionalAtMark
<1>2. Empty(m, t)
    BY DEF LiquidatePosition, Empty, Emptied
<1> HIDE DEF bounty, reward, rest, left
<1>3. U64 \subseteq Nat
    BY LedgerAssumption DEF U64
<1>4. /\ Pool \in Accounts /\ ledger \in Ledgers /\ vault_gate \in VaultGates
      /\ \A a \in Traders : a \in Accounts /\ a # Pool /\ a # Insurance
    BY StateFacts
<1>5. \A a \in Accounts : Spendable(ledger, a) \in Nat
    BY LedgerAssumption DEF Spendable, Ledgers, U64, IInv, TypeOK
<1>6. /\ LedgerKept
      /\ \A a \in Accounts \ {Pool, insurance} : Spendable(ledger', a) >= Spendable(ledger, a)
    <2>1. CASE left <= 0
        <3>1. /\ bounty \in Nat /\ CanPay(ledger, insurance, keeper, bounty)
              /\ ledger' = Paid(ledger, insurance, keeper, bounty)
            BY <1>1, <1>3, <2>1
        <3>2. /\ LedgerKept
              /\ \A a \in Accounts :
                   Spendable(ledger', a) = IF a = insurance THEN Spendable(ledger, a) - bounty
                                           ELSE IF a = keeper THEN Spendable(ledger, a) + bounty
                                           ELSE Spendable(ledger, a)
            BY <1>4, <3>1, PaidFacts DEF LedgerKept
        <3>3. QED
            BY <1>5, <3>1, <3>2
    <2>2. CASE ~ (left <= 0)
        <3>1. /\ reward \in Nat /\ rest \in Nat
              /\ PayTwice(Pool, keeper, reward, Pool, insurance, rest)
            BY <1>1, <1>3, <2>2
        <3>2. /\ LedgerKept
              /\ \A a \in Accounts :
                   Spendable(ledger', a) =
                       Spendable(ledger, a)
                         + (IF a = Pool THEN -reward ELSE IF a = keeper THEN reward ELSE 0)
                         + (IF a = Pool THEN -rest ELSE IF a = insurance THEN rest ELSE 0)
            BY <1>4, <3>1, PaidTwiceFacts DEF LedgerKept
        <3>3. QED
            BY <1>5, <3>1, <3>2
    <2>3. QED
        BY <2>1, <2>2
<1>7. IInv'
    BY <1>1, <1>2, <1>6, EmptyStep DEF LedgerKept
<1>8. ASSUME insurance_fund_balance # NoAccount PROVE OthersUntouched
    <2>1. insurance = Insurance
        BY <1>1, <1>8 DEF IInv, TypeOK
    <2>2. \A a \in Traders : ~ (Spendable(ledger, a) - Spendable(ledger', a) > 0)
        <3> SUFFICES ASSUME NEW a \in Traders
                     PROVE  ~ (Spendable(ledger, a) - Spendable(ledger', a) > 0)
            OBVIOUS
        <3>1. a \in Accounts /\ a \notin {Pool, insurance}
            BY <1>4, <2>1
        <3>2. Spendable(ledger', a) >= Spendable(ledger, a) /\ Spendable(ledger, a) \in Nat
            BY <1>5, <1>6, <3>1
        <3>3. Spendable(ledger', a) \in Int
            BY <1>6, <3>1, LedgerAssumption DEF Spendable, LedgerKept, Ledgers, U64
        <3>4. QED
            BY <3>2, <3>3
    <2>3. QED
        BY <2>2 DEF OthersUntouched
<1>9. QED
    BY <1>1, <1>6, <1>7, <1>8

--------------------------------------------------------------------------------
(* Markets, prices, the owner, the vault *)

LEMMA AddMarketStep ==
    ASSUME IInv, NEW key, NEW m \in Markets, NEW params \in MarketParams,
           AddMarket(key, m, params)
    PROVE  IInv'
<1> DEFINE new == [NoMarket EXCEPT !.active = TRUE,
                                   !.initial_margin_bps = params.initial_margin_bps,
                                   !.maintenance_margin_bps = params.maintenance_margin_bps,
                                   !.max_position_size = params.max_position_size]
<1>1. /\ ~ market[m].active
      /\ params.maintenance_margin_bps < params.initial_margin_bps
      /\ market' = [market EXCEPT ![m] = new]
      /\ UNCHANGED <<admin, engine_pool, position, ledger, vault_gate>>
    BY DEF AddMarket
<1>2. /\ params \in [initial_margin_bps : U64, maintenance_margin_bps : U64,
                     max_position_size : U64]
      /\ NumTraders * params.max_position_size <= MaxU64
    BY EngineAssumption, OpenInterestFits
<1>3. 0 \in U64 /\ U64 \subseteq Nat
    BY LedgerAssumption DEF U64
<1>4. /\ new \in [active : BOOLEAN, initial_margin_bps : U64, maintenance_margin_bps : U64,
                  max_position_size : U64, mark_price : U64,
                  open_interest_long : U64, open_interest_short : U64]
      /\ new.initial_margin_bps = params.initial_margin_bps
      /\ new.maintenance_margin_bps = params.maintenance_margin_bps
      /\ new.max_position_size = params.max_position_size
      /\ new.active /\ new.mark_price = 0
      /\ new.open_interest_long = 0 /\ new.open_interest_short = 0
    BY <1>2, <1>3 DEF NoMarket
<1> HIDE DEF new
<1>5. \A n \in Markets : market'[n] = IF n = m THEN new ELSE market[n]
    BY <1>1 DEF IInv, TypeOK
<1>6. \A t \in Traders : position[m][t].size = 0 /\ position[m][t].margin = 0
                         /\ position[m][t].entry_price \in Nat
    <2> SUFFICES ASSUME NEW t \in Traders
                 PROVE  /\ position[m][t].size = 0 /\ position[m][t].margin = 0
                        /\ position[m][t].entry_price \in Nat
        OBVIOUS
    <2>1. position[m][t].size = 0
        BY <1>1 DEF IInv, PositionsListed
    <2>2. /\ position[m][t].entry_price \in Nat /\ market[m].initial_margin_bps \in Nat
          /\ Abs(0) = 0
        BY StateFacts, Magnitude
    <2>3. position[m][t].margin
              = RequiredMargin(market[m].initial_margin_bps, 0, position[m][t].entry_price)
        BY <2>1, <2>2 DEF IInv, MarginIsRequired
    <2>4. QED
        BY <2>1, <2>2, <2>3, NoMarginForNothing
<1>7. TypeOK'
    <2>1. market' \in [Markets -> [active : BOOLEAN, initial_margin_bps : U64,
              maintenance_margin_bps : U64, max_position_size : U64, mark_price : U64,
              open_interest_long : U64, open_interest_short : U64]]
        BY <1>1, <1>4 DEF IInv, TypeOK
    <2>2. QED
        BY <1>1, <2>1 DEF IInv, TypeOK, admin
<1>8. MarketsSound'
    <2> SUFFICES ASSUME NEW n \in Markets
                 PROVE  /\ market'[n].active =>
                              /\ market'[n].maintenance_margin_bps <= market'[n].initial_margin_bps
                              /\ NumTraders * market'[n].max_position_size <= MaxU64
                        /\ ~ market'[n].active => market'[n].mark_price = 0
        BY DEF MarketsSound
    <2>1. CASE n = m
        <3>1. params.maintenance_margin_bps \in Nat /\ params.initial_margin_bps \in Nat
            BY <1>2, <1>3
        <3>2. new.maintenance_margin_bps <= new.initial_margin_bps
            BY <1>1, <1>4, <3>1
        <3>3. NumTraders * new.max_position_size <= MaxU64
            BY <1>2, <1>4
        <3>4. QED
            BY <1>4, <1>5, <2>1, <3>2, <3>3
    <2>2. CASE n # m
        BY <1>5, <2>2 DEF IInv, MarketsSound
    <2>3. QED
        BY <2>1, <2>2
<1>9. MarginIsRequired'
    <2> SUFFICES ASSUME NEW n \in Markets, NEW t \in Traders
                 PROVE  position[n][t].margin
                          = RequiredMargin(market'[n].initial_margin_bps,
                                           Abs(position[n][t].size), position[n][t].entry_price)
        BY <1>1 DEF MarginIsRequired
    <2>1. CASE n = m
        <3>1. market'[n].initial_margin_bps \in Nat /\ Abs(0) = 0
            <4>1. market'[n].initial_margin_bps = params.initial_margin_bps
                BY <1>4, <1>5, <2>1
            <4>2. params.initial_margin_bps \in Nat
                BY <1>2, <1>3
            <4>3. Abs(0) = 0
                BY DEF Abs
            <4>4. QED
                BY <4>1, <4>2, <4>3
        <3> DEFINE bps == market'[n].initial_margin_bps
                   entry == position[n][t].entry_price
        <3>a. bps \in Nat /\ entry \in Nat
            BY <1>6, <2>1, <3>1
        <3> HIDE DEF bps, entry
        <3>b. RequiredMargin(bps, 0, entry) = 0
            BY <3>a, NoMarginForNothing
        <3>2. RequiredMargin(market'[n].initial_margin_bps, 0, position[n][t].entry_price) = 0
            BY <3>b DEF bps, entry
        <3>3. position[n][t].size = 0 /\ position[n][t].margin = 0
            BY <1>6, <2>1
        <3>4. QED
            BY <3>1, <3>2, <3>3
    <2>2. CASE n # m
        BY <1>5, <2>2 DEF IInv, MarginIsRequired
    <2>3. QED
        BY <2>1, <2>2
<1>10. PositionsListed'
    <2> SUFFICES ASSUME NEW n \in Markets, NEW t \in Traders, position[n][t].size # 0
                 PROVE  /\ market'[n].active
                        /\ Abs(position[n][t].size) <= market'[n].max_position_size
                        /\ position[n][t].entry_price > 0
        BY <1>1 DEF PositionsListed
    <2>1. n # m
        BY <1>6
    <2>2. QED
        BY <1>5, <2>1 DEF IInv, PositionsListed
<1>11. OpenInterestExact'
    <2> SUFFICES ASSUME NEW n \in Markets
                 PROVE  /\ market'[n].open_interest_long = SumTo(LongRows(position, n), NumTraders)
                        /\ market'[n].open_interest_short = SumTo(ShortRows(position, n), NumTraders)
        BY <1>1 DEF OpenInterestExact, LongRows, ShortRows
    <2>1. CASE n = m
        <3>1. \A t \in 1 .. NumTraders : LongRows(position, n)[t] = 0 /\ ShortRows(position, n)[t] = 0
            BY <1>6, <2>1, Magnitude DEF LongRows, ShortRows, Traders
        <3>2. /\ LongRows(position, n) \in [1 .. NumTraders -> Int]
              /\ ShortRows(position, n) \in [1 .. NumTraders -> Int]
            BY <3>1 DEF LongRows, ShortRows, Traders
        <3>3. NumTraders \in Nat
            BY EngineAssumption
        <3>4. /\ SumTo(LongRows(position, n), NumTraders) = 0
              /\ SumTo(ShortRows(position, n), NumTraders) = 0
            BY <3>1, <3>2, <3>3, SumZero
        <3>5. QED
            BY <1>4, <1>5, <2>1, <3>4
    <2>2. CASE n # m
        BY <1>5, <2>2 DEF IInv, OpenInterestExact, LongRows, ShortRows
    <2>3. QED
        BY <2>1, <2>2
<1>12. QED
    BY <1>7, <1>8, <1>9, <1>10, <1>11 DEF IInv

LEMMA UpdateMarkPriceStep ==
    ASSUME IInv, NEW op, NEW m \in Markets, NEW price \in U64,
           UpdateMarkPrice(op, m, price)
    PROVE  IInv' /\ ~ paused /\ position' = position
<1>1. /\ ~ paused /\ market[m].active
      /\ market' = [market EXCEPT ![m].mark_price = price]
      /\ UNCHANGED <<admin, engine_pool, position, ledger, vault_gate>>
    BY DEF UpdateMarkPrice
<1>2. /\ market' \in [Markets -> [active : BOOLEAN, initial_margin_bps : U64,
              maintenance_margin_bps : U64, max_position_size : U64, mark_price : U64,
              open_interest_long : U64, open_interest_short : U64]]
      /\ \A n \in Markets :
            /\ market'[n].active = market[n].active
            /\ market'[n].initial_margin_bps = market[n].initial_margin_bps
            /\ market'[n].maintenance_margin_bps = market[n].maintenance_margin_bps
            /\ market'[n].max_position_size = market[n].max_position_size
            /\ market'[n].open_interest_long = market[n].open_interest_long
            /\ market'[n].open_interest_short = market[n].open_interest_short
            /\ ~ market[n].active => market'[n].mark_price = market[n].mark_price
    BY <1>1 DEF IInv, TypeOK
<1>3. TypeOK'
    BY <1>1, <1>2 DEF IInv, TypeOK, admin
<1>4. MarketsSound' /\ OpenInterestExact' /\ MarginIsRequired' /\ PositionsListed'
    BY <1>1, <1>2 DEF IInv, MarketsSound, OpenInterestExact, MarginIsRequired, PositionsListed
<1>5. QED
    BY <1>1, <1>3, <1>4 DEF IInv

\* Steps that leave markets and positions alone.
LEMMA ElsewhereStep ==
    ASSUME IInv, UNCHANGED <<market, position>>, TypeOK'
    PROVE  IInv'
BY DEF IInv, MarketsSound, OpenInterestExact, MarginIsRequired, PositionsListed

LEMMA OwnerStepKeeps ==
    ASSUME IInv, OwnerStep
    PROVE  IInv' /\ position' = position
                 /\ (paused => \A m \in Markets : market'[m].mark_price = market[m].mark_price)
<1>1. PICK key \in Keys :
        \/ \E m \in Markets, params \in MarketParams : AddMarket(key, m, params)
        \/ \E amount \in PoolFunding : BootstrapEnginePool(key, amount)
        \/ Pause(key) \/ Unpause(key)
        \/ \E balance \in {Insurance, NoAccount} : SetInsuranceFundBalance(key, balance)
        \/ \E op \in Keys, status \in BOOLEAN : SetOperator(key, op, status)
        \/ \E new_owner \in Keys : TransferOwnership(key, new_owner)
        \/ AcceptOwnership(key)
    BY DEF OwnerStep
<1>2. UNCHANGED vault_gate /\ vault_gate \in VaultGates
    BY <1>1 DEF IInv, TypeOK, AddMarket, BootstrapEnginePool, Pause, Unpause,
                SetInsuranceFundBalance, SetOperator, TransferOwnership, AcceptOwnership
<1>3. CASE \E m \in Markets, params \in MarketParams : AddMarket(key, m, params)
    <2>1. PICK m \in Markets, params \in MarketParams : AddMarket(key, m, params)
        BY <1>3
    <2>2. IInv'
        BY <2>1, AddMarketStep
    <2>3. /\ position' = position
          /\ \A n \in Markets : market'[n].mark_price = market[n].mark_price
        BY <2>1 DEF AddMarket, NoMarket, IInv, TypeOK, MarketsSound
    <2>4. QED
        BY <2>2, <2>3
<1>4. CASE \E amount \in PoolFunding : BootstrapEnginePool(key, amount)
    <2>1. PICK amount \in PoolFunding : BootstrapEnginePool(key, amount)
        BY <1>4
    <2>2. /\ engine_pool' = Pool
          /\ ledger' = [ledger EXCEPT !.balance[Pool] = @ + amount]
          /\ amount > 0 /\ ledger.balance[Pool] + amount <= MaxU64
          /\ UNCHANGED <<admin, market, position, vault_gate>>
        BY <2>1 DEF BootstrapEnginePool
    <2>3. amount \in Nat /\ Pool \in Accounts /\ ledger \in Ledgers
        BY EngineAssumption, LedgerAssumption DEF U64, IInv, TypeOK
    <2>4. ledger' \in Ledgers
        BY <2>2, <2>3, LedgerAssumption DEF Ledgers, U64
    <2>5. TypeOK'
        BY <2>2, <2>4 DEF IInv, TypeOK, admin
    <2>6. QED
        BY <2>2, <2>5, ElsewhereStep
<1>5. CASE \/ Pause(key) \/ Unpause(key)
           \/ \E balance \in {Insurance, NoAccount} : SetInsuranceFundBalance(key, balance)
           \/ \E op \in Keys, status \in BOOLEAN : SetOperator(key, op, status)
           \/ \E new_owner \in Keys : TransferOwnership(key, new_owner)
           \/ AcceptOwnership(key)
    <2>1. UNCHANGED <<engine_pool, market, position, ledger, vault_gate>>
        BY <1>5 DEF Pause, Unpause, SetInsuranceFundBalance, SetOperator,
                    TransferOwnership, AcceptOwnership
    <2>2. /\ owner' \in Keys /\ pending_owner' \in Keys \cup {NoKey} /\ paused' \in BOOLEAN
          /\ operators' \subseteq Keys
          /\ insurance_fund_balance' \in {Insurance, NoAccount}
        BY <1>5 DEF IInv, TypeOK, Pause, Unpause, SetInsuranceFundBalance, SetOperator,
                    TransferOwnership, AcceptOwnership
    <2>3. TypeOK'
        BY <2>1, <2>2 DEF IInv, TypeOK
    <2>4. QED
        BY <2>1, <2>3, ElsewhereStep
<1>6. QED
    BY <1>1, <1>3, <1>4, <1>5

LEMMA VaultStepKeeps ==
    ASSUME IInv, VaultStep
    PROVE  IInv' /\ UNCHANGED <<market, position>>
<1>1. UNCHANGED <<admin, engine_pool, market, position>>
    BY DEF VaultStep, VaultDeposit, VaultWithdraw, SetVaultGate
<1>2. ledger' \in Ledgers /\ vault_gate' \in VaultGates
    <2>1. ASSUME NEW t \in Traders, NEW amount \in Transfers, VaultDeposit(t, amount)
          PROVE  ledger' \in Ledgers /\ vault_gate' \in VaultGates
        <3>1. /\ ledger' = [ledger EXCEPT !.balance[t] = @ + amount]
              /\ amount > 0 /\ ledger.balance[t] + amount <= MaxU64
              /\ UNCHANGED vault_gate
            BY <2>1 DEF VaultDeposit
        <3>2. amount \in Nat /\ t \in Accounts /\ ledger \in Ledgers /\ vault_gate \in VaultGates
            BY EngineAssumption, LedgerAssumption DEF U64, IInv, TypeOK, Accounts, Traders
        <3>3. QED
            BY <3>1, <3>2, LedgerAssumption DEF Ledgers, U64
    <2>2. ASSUME NEW t \in Traders, NEW amount \in Transfers, VaultWithdraw(t, amount)
          PROVE  ledger' \in Ledgers /\ vault_gate' \in VaultGates
        <3>1. /\ ledger' = [ledger EXCEPT !.balance[t] = @ - amount]
              /\ amount > 0 /\ amount <= ledger.balance[t]
              /\ UNCHANGED vault_gate
            BY <2>2 DEF VaultWithdraw
        <3>2. amount \in Nat /\ t \in Accounts /\ ledger \in Ledgers /\ vault_gate \in VaultGates
            BY EngineAssumption, LedgerAssumption DEF U64, IInv, TypeOK, Accounts, Traders
        <3>3. QED
            BY <3>1, <3>2, LedgerAssumption DEF Ledgers, U64
    <2>3. ASSUME NEW gate \in VaultGates, SetVaultGate(gate)
          PROVE  ledger' \in Ledgers /\ vault_gate' \in VaultGates
        BY <2>3 DEF SetVaultGate, IInv, TypeOK
    <2>4. QED
        BY <2>1, <2>2, <2>3 DEF VaultStep
<1>3. TypeOK'
    BY <1>1, <1>2 DEF IInv, TypeOK, admin
<1>4. QED
    BY <1>1, <1>3, ElsewhereStep

LEMMA TradeStepKeeps ==
    ASSUME IInv, TradeStep
    PROVE  IInv' /\ LedgerKept /\ ~ paused /\ (insurance_fund_balance # NoAccount => OthersUntouched)
<1>1. SizeDeltas \subseteq Int /\ Prices \subseteq U64 /\ Prices \subseteq Nat
    BY EngineAssumption, LedgerAssumption DEF U64
<1>2. PICK op \in Keys, m \in Markets, t \in Traders :
        \/ \E size_delta \in SizeDeltas, fill_price \in Prices :
              \/ OpenPosition(op, m, t, size_delta, fill_price)
              \/ ReducePosition(op, m, t, size_delta, fill_price)
        \/ \E fill_price \in Prices : ClosePosition(op, m, t, fill_price)
        \/ \E keeper, insurance \in Accounts : LiquidatePosition(op, m, t, keeper, insurance)
    BY DEF TradeStep
<1>3. ASSUME NEW size_delta \in SizeDeltas, NEW fill_price \in Prices,
             OpenPosition(op, m, t, size_delta, fill_price)
      PROVE  IInv' /\ LedgerKept /\ ~ paused /\ OthersUntouched
    BY <1>1, <1>3, OpenPositionStep
<1>4. ASSUME NEW size_delta \in SizeDeltas, NEW fill_price \in Prices,
             ReducePosition(op, m, t, size_delta, fill_price)
      PROVE  IInv' /\ LedgerKept /\ ~ paused /\ OthersUntouched
    BY <1>1, <1>4, ReducePositionStep
<1>5. ASSUME NEW fill_price \in Prices, ClosePosition(op, m, t, fill_price)
      PROVE  IInv' /\ LedgerKept /\ ~ paused /\ OthersUntouched
    BY <1>1, <1>5, ClosePositionStep
<1>6. ASSUME NEW keeper \in Accounts, NEW insurance \in Accounts,
             LiquidatePosition(op, m, t, keeper, insurance)
      PROVE  /\ IInv' /\ LedgerKept /\ ~ paused
             /\ insurance_fund_balance # NoAccount => OthersUntouched
    BY <1>6, LiquidatePositionStep
<1>7. QED
    BY <1>2, <1>3, <1>4, <1>5, <1>6

--------------------------------------------------------------------------------
(* The theorems *)

\* Books without a position are sound when their markets are.
LEMMA NoPositionsYet ==
    ASSUME TypeOK, MarketsSound, \A m \in Markets, t \in Traders : position[m][t] = NoPosition,
           \A m \in Markets : /\ market[m].open_interest_long = 0
                              /\ market[m].open_interest_short = 0
    PROVE  IInv
<1>1. OpenInterestExact
    <2> SUFFICES ASSUME NEW m \in Markets
                 PROVE  /\ market[m].open_interest_long = SumTo(LongRows(position, m), NumTraders)
                        /\ market[m].open_interest_short = SumTo(ShortRows(position, m), NumTraders)
        BY DEF OpenInterestExact, LongRows, ShortRows
    <2>1. \A t \in 1 .. NumTraders : LongRows(position, m)[t] = 0 /\ ShortRows(position, m)[t] = 0
        BY Magnitude DEF LongRows, ShortRows, Traders, NoPosition
    <2>2. /\ LongRows(position, m) \in [1 .. NumTraders -> Int]
          /\ ShortRows(position, m) \in [1 .. NumTraders -> Int]
        BY <2>1 DEF LongRows, ShortRows, Traders
    <2>3. /\ SumTo(LongRows(position, m), NumTraders) = 0
          /\ SumTo(ShortRows(position, m), NumTraders) = 0
        BY EngineAssumption, <2>1, <2>2, SumZero
    <2>4. QED
        BY <2>3
<1>2. MarginIsRequired
    <2> SUFFICES ASSUME NEW m \in Markets, NEW t \in Traders
                 PROVE  position[m][t].margin
                          = RequiredMargin(market[m].initial_margin_bps,
                                           Abs(position[m][t].size), position[m][t].entry_price)
        BY DEF MarginIsRequired
    <2> DEFINE bps == market[m].initial_margin_bps
    <2>1. bps \in Nat
        BY LedgerAssumption DEF TypeOK, U64
    <2> HIDE DEF bps
    <2>2. RequiredMargin(bps, 0, 0) = 0 /\ Abs(0) = 0
        BY <2>1, NoMarginForNothing, Magnitude
    <2>3. QED
        BY <2>2 DEF NoPosition, bps
<1>3. PositionsListed
    BY DEF PositionsListed, NoPosition
<1>4. QED
    BY <1>1, <1>2, <1>3 DEF IInv

LEMMA InitIInv == Init => IInv
<1> SUFFICES ASSUME Init PROVE IInv
    OBVIOUS
<1>1. 0 \in U64 /\ 0 \in I64 /\ InitialLedger \in Ledgers
    BY LedgerAssumption, EngineAssumption DEF U64, I64, MaxI64
<1>2. /\ \A m \in Markets : market[m] = NoMarket
      /\ \A m \in Markets, t \in Traders : position[m][t] = NoPosition
    BY DEF Init
<1>3. TypeOK
    BY <1>1 DEF Init, TypeOK, NoMarket, NoPosition
<1>4. MarketsSound
    BY <1>2 DEF MarketsSound, NoMarket
<1>5. QED
    BY <1>2, <1>3, <1>4, NoPositionsYet DEF NoMarket

\* A deployed engine is one whose books are sound.
LEMMA DeployedIInv ==
    ASSUME NEW listed, Deployed(listed)
    PROVE  IInv
<1>1. 0 \in U64 /\ 0 \in I64 /\ InitialLedger \in Ledgers /\ U64 \subseteq Nat
    BY LedgerAssumption, EngineAssumption DEF U64, I64, MaxI64
<1>2. PICK params \in MarketParams, price \in Prices :
          /\ params.maintenance_margin_bps < params.initial_margin_bps
          /\ market = [m \in Markets |-> IF m \notin listed THEN NoMarket ELSE
                 [active |-> TRUE, initial_margin_bps |-> params.initial_margin_bps,
                  maintenance_margin_bps |-> params.maintenance_margin_bps,
                  max_position_size |-> params.max_position_size, mark_price |-> price,
                  open_interest_long |-> 0, open_interest_short |-> 0]]
    BY DEF Deployed
<1>3. /\ params \in [initial_margin_bps : U64, maintenance_margin_bps : U64,
                     max_position_size : U64]
      /\ NumTraders * params.max_position_size <= MaxU64
      /\ price \in U64
    BY EngineAssumption, OpenInterestFits
<1>4. /\ position = [m \in Markets |-> [t \in Traders |-> NoPosition]]
      /\ \A m \in Markets, t \in Traders : position[m][t] = NoPosition
    BY DEF Deployed
<1>5. TypeOK
    <2>1. market \in [Markets -> MarketRecord]
        BY <1>1, <1>2, <1>3 DEF MarketRecord, NoMarket
    <2>2. NoPosition \in PositionRecord
        BY <1>1 DEF NoPosition, PositionRecord
    <2>3. position \in [Markets -> [Traders -> PositionRecord]]
        BY <1>4, <2>2
    <2>4. QED
        BY <1>1, <2>1, <2>3 DEF Deployed, TypeOK, MarketRecord, PositionRecord
<1>6. MarketsSound
    <2> SUFFICES ASSUME NEW m \in Markets
                 PROVE  /\ market[m].active =>
                              /\ market[m].maintenance_margin_bps <= market[m].initial_margin_bps
                              /\ NumTraders * market[m].max_position_size <= MaxU64
                        /\ ~ market[m].active => market[m].mark_price = 0
        BY DEF MarketsSound
    <2>1. params.maintenance_margin_bps \in Nat /\ params.initial_margin_bps \in Nat
        BY <1>1, <1>3
    <2>2. CASE m \notin listed
        BY <1>2, <2>2 DEF NoMarket
    <2>3. CASE m \in listed
        <3>1. /\ market[m].active
              /\ market[m].maintenance_margin_bps = params.maintenance_margin_bps
              /\ market[m].initial_margin_bps = params.initial_margin_bps
              /\ market[m].max_position_size = params.max_position_size
            BY <1>2, <2>3
        <3>2. QED
            BY <1>2, <1>3, <2>1, <3>1
    <2>4. QED
        BY <2>2, <2>3
<1>7. \A m \in Markets : market[m].open_interest_long = 0 /\ market[m].open_interest_short = 0
    BY <1>2 DEF NoMarket
<1>8. QED
    BY <1>4, <1>5, <1>6, <1>7, NoPositionsYet

LEMMA NextIInv == IInv /\ [Next]_vars => IInv'
<1> SUFFICES ASSUME IInv, [Next]_vars PROVE IInv'
    OBVIOUS
<1>1. CASE TradeStep
    BY <1>1, TradeStepKeeps
<1>2. CASE PriceStep
    <2>1. PICK op \in Keys, m \in Markets, price \in Prices : UpdateMarkPrice(op, m, price)
        BY <1>2 DEF PriceStep
    <2>2. price \in U64
        BY EngineAssumption
    <2>3. QED
        BY <2>1, <2>2, UpdateMarkPriceStep
<1>3. CASE OwnerStep
    BY <1>3, OwnerStepKeeps
<1>4. CASE VaultStep
    BY <1>4, VaultStepKeeps
<1>5. CASE UNCHANGED vars
    <2>1. TypeOK'
        BY <1>5 DEF IInv, TypeOK, vars, admin
    <2>2. QED
        BY <1>5, <2>1, ElsewhereStep DEF vars
<1>6. QED
    BY <1>1, <1>2, <1>3, <1>4, <1>5 DEF Next

LEMMA Invariance == Spec => []IInv
BY InitIInv, NextIInv, PTL DEF Spec

\* Every reachable engine state is well typed.
THEOREM EngineTypes == Spec => []TypeOK
BY Invariance, PTL DEF IInv

\* The two open interest counters of every market equal the sums over its
\* positions in every reachable state.
THEOREM OpenInterestIsExact == Spec => []OpenInterestExact
BY Invariance, PTL DEF IInv

\* Every position holds exactly the initial margin of its size at its entry.
THEOREM MarginAlwaysRequired == Spec => []MarginIsRequired
BY Invariance, PTL DEF IInv

\* A position is open only in a listed market, within its limit, at a
\* positive entry price.
THEOREM PositionsAlwaysListed == Spec => []PositionsListed
BY Invariance, PTL DEF IInv

\* The three together are the engine's books.
THEOREM EngineBooks == Spec => []EngineInv
BY EngineTypes, MarginAlwaysRequired, PositionsAlwaysListed, PTL DEF EngineInv

\* At its own entry price a position makes nothing and holds its initial
\* margin, which is at least the maintenance margin the mark then asks for.
LEMMA InvariantSafeAtEntry == IInv => SafeAtEntry
<1> SUFFICES ASSUME IInv, NEW m \in Markets, NEW t \in Traders, position[m][t].size # 0
             PROVE  ~ Liquidatable([market[m] EXCEPT !.mark_price = position[m][t].entry_price],
                                   position[m][t])
    BY DEF SafeAtEntry
<1> DEFINE pos == position[m][t]
           im == market[m].initial_margin_bps
           mm == market[m].maintenance_margin_bps
           notional == Notional(Abs(pos.size), pos.entry_price)
           at == [market[m] EXCEPT !.mark_price = pos.entry_price]
<1>1. /\ pos.size \in Int /\ pos.entry_price \in Nat /\ im \in Nat /\ mm \in Nat
      /\ mm <= im /\ Abs(pos.size) \in Nat
    <2>1. market[m].active
        BY DEF IInv, PositionsListed
    <2>2. QED
        BY <2>1, StateFacts, Magnitude DEF IInv, MarketsSound
<1>2. at.mark_price = pos.entry_price /\ at.maintenance_margin_bps = mm
    BY DEF IInv, TypeOK
<1>3. notional \in Nat
    <2> DEFINE x == Abs(pos.size) * pos.entry_price
    <2>1. x \in Nat
        BY <1>1
    <2> HIDE DEF x
    <2>2. x \div SIZE_PRECISION \in Nat
        BY <2>1, EngineAssumption, DivFacts
    <2>3. QED
        BY <2>2 DEF Notional, x
<1>4. Pnl(pos.size, pos.entry_price, pos.entry_price) = 0
    <2>1. (IF pos.size > 0 THEN pos.entry_price - pos.entry_price
           ELSE pos.entry_price - pos.entry_price) * Abs(pos.size) = 0
        BY <1>1
    <2>2. TruncDiv(0, SIZE_PRECISION) = 0
        BY EngineAssumption, DivFacts DEF TruncDiv
    <2>3. QED
        BY <2>1, <2>2 DEF Pnl
<1>5. pos.margin = Share(im, notional)
    BY DEF IInv, MarginIsRequired, RequiredMargin
<1> HIDE DEF notional, im, mm
<1>6. Share(mm, notional) <= Share(im, notional) /\ Share(im, notional) \in Nat
      /\ Share(mm, notional) \in Nat
    <2>1. notional * mm <= notional * im /\ notional * mm \in Nat /\ notional * im \in Nat
        BY <1>1, <1>3, ProductMonotone
    <2> DEFINE x == notional * mm
               y == notional * im
    <2>2. x \in Nat /\ y \in Nat /\ x <= y
        BY <2>1
    <2> HIDE DEF x, y
    <2>3. x \div BPS <= y \div BPS /\ x \div BPS \in Nat /\ y \div BPS \in Nat
        BY <2>2, EngineAssumption, DivMonotone, DivFacts
    <2>4. QED
        BY <2>3 DEF Share, x, y
<1>7. Liquidatable(at, pos) <=> Share(im, notional) + 0 < Share(mm, notional)
    BY <1>2, <1>4, <1>5 DEF Liquidatable, notional
<1>8. ~ Liquidatable(at, pos)
    BY <1>6, <1>7
<1>9. QED
    BY <1>8

\* No fill leaves a position liquidatable at its own entry price.
THEOREM AlwaysSafeAtEntry == Spec => []SafeAtEntry
BY Invariance, InvariantSafeAtEntry, PTL

\* A winner's margin and profit cover a maintenance margin of up to half the
\* notional, so only a loser can be liquidated.
LEMMA InvariantOnlyLosers == IInv => OnlyLosersLiquidatable
<1>0. SUFFICES ASSUME IInv PROVE OnlyLosersLiquidatable
    OBVIOUS
<1>a. ASSUME NEW m \in Markets, NEW t \in Traders
      PROVE  Pnl(position[m][t].size, position[m][t].entry_price, market[m].mark_price) \in Int
    BY StateFacts, PnlType, <1>0
<1> SUFFICES ASSUME NEW m \in Markets, NEW t \in Traders,
                    position[m][t].size # 0,
                    2 * market[m].maintenance_margin_bps <= BPS,
                    Pnl(position[m][t].size, position[m][t].entry_price, market[m].mark_price) > 0
             PROVE  ~ Liquidatable(market[m], position[m][t])
    BY <1>a DEF OnlyLosersLiquidatable
<1> DEFINE pos == position[m][t]
           im == market[m].initial_margin_bps
           mm == market[m].maintenance_margin_bps
           mark == market[m].mark_price
           pnl == Pnl(pos.size, pos.entry_price, mark)
           n0 == Notional(Abs(pos.size), pos.entry_price)
           n1 == Notional(Abs(pos.size), mark)
<1>1. /\ pos.size \in Int /\ pos.entry_price \in Nat /\ im \in Nat /\ mm \in Nat /\ mark \in Nat
      /\ mm <= im /\ Abs(pos.size) \in Nat
    <2>1. market[m].active
        BY <1>0 DEF IInv, PositionsListed
    <2>2. QED
        BY <1>0, <2>1, StateFacts, Magnitude DEF IInv, MarketsSound
<1>2. n0 \in Nat /\ n1 \in Nat /\ pnl \in Int
    BY <1>1, NotionalType, PnlType
<1>3. n1 <= n0 + 2 * pnl
    BY <1>1, ProfitBoundsNotional
<1>4. pos.margin = Share(im, n0)
    BY <1>0 DEF IInv, MarginIsRequired, RequiredMargin
<1>5. Liquidatable(market[m], pos) <=> pos.margin + pnl < Share(mm, n1)
    BY DEF Liquidatable
<1>6. pnl \in Nat /\ 2 * mm <= BPS
    BY <1>2
<1> HIDE DEF n0, n1, pnl, im, mm
<1>7. Share(mm, n1) <= Share(mm, n0) + pnl
    BY <1>1, <1>2, <1>3, <1>6, HalfShare
<1>8. Share(mm, n0) <= Share(im, n0)
    <2> DEFINE x == n0 * mm
               y == n0 * im
    <2>1. x \in Nat /\ y \in Nat /\ x <= y
        BY <1>1, <1>2, ProductMonotone
    <2> HIDE DEF x, y
    <2>2. x \div BPS <= y \div BPS
        BY <2>1, EngineAssumption, DivMonotone
    <2>3. QED
        BY <2>2 DEF Share, x, y
<1>9. Share(mm, n0) \in Int /\ Share(im, n0) \in Int /\ Share(mm, n1) \in Int
    <2> DEFINE x == n0 * mm
               y == n0 * im
               z == n1 * mm
    <2>1. x \in Nat /\ y \in Nat /\ z \in Nat
        BY <1>1, <1>2
    <2> HIDE DEF x, y, z
    <2>2. x \div BPS \in Nat /\ y \div BPS \in Nat /\ z \div BPS \in Nat
        BY <2>1, EngineAssumption, DivFacts
    <2>3. QED
        BY <2>2 DEF Share, x, y, z
<1>10. QED
    BY <1>4, <1>5, <1>6, <1>7, <1>8, <1>9
\* Only a position that loses at the mark can be liquidated, for maintenance
\* margins of up to half the notional.
THEOREM OnlyLosersAreLiquidated == Spec => []OnlyLosersLiquidatable
BY Invariance, InvariantOnlyLosers, PTL

\* Steps that move no position are not trades.
LEMMA OnlyTradesMovePositions ==
    ASSUME IInv, [Next]_vars, position' # position
    PROVE  LedgerKept /\ (insurance_fund_balance # NoAccount => OthersUntouched)
<1>1. CASE TradeStep
    BY <1>1, TradeStepKeeps
<1>2. CASE PriceStep
    BY <1>2 DEF PriceStep, UpdateMarkPrice
<1>3. CASE OwnerStep
    BY <1>3, OwnerStepKeeps
<1>4. CASE VaultStep
    BY <1>4, VaultStepKeeps
<1>5. CASE UNCHANGED vars
    BY <1>5 DEF vars
<1>6. QED
    BY <1>1, <1>2, <1>3, <1>4, <1>5 DEF Next

\* Every instruction that moves a position keeps the total of both columns
\* of the vault.
THEOREM TradesAlwaysConserve == Spec => TradesConserve
<1>1. IInv /\ [Next]_vars =>
        [position' # position =>
            /\ TotalBalance(ledger') = TotalBalance(ledger)
            /\ TotalCollateral(ledger') = TotalCollateral(ledger)]_vars
    BY OnlyTradesMovePositions DEF LedgerKept
<1>2. QED
    BY <1>1, Invariance, PTL DEF Spec, TradesConserve

\* With an insurance balance configured, no instruction takes from a trader
\* more than the margin of one position it leaves that trader with.
THEOREM LiabilityIsLimited == Spec => LimitedLiability
<1>1. IInv /\ [Next]_vars =>
        [insurance_fund_balance # NoAccount /\ position' # position =>
            \A t \in Traders :
                LET taken == Spendable(ledger, t) - Spendable(ledger', t)
                IN  taken > 0 => \E m \in Markets : /\ position'[m][t] # position[m][t]
                                                    /\ taken <= position'[m][t].margin]_vars
    BY OnlyTradesMovePositions DEF OthersUntouched
<1>2. QED
    BY <1>1, Invariance, PTL DEF Spec, LimitedLiability

\* While the engine is paused no instruction moves a position or a mark price.
THEOREM PauseAlwaysFreezes == Spec => PauseFreezes
<1>1. IInv /\ [Next]_vars =>
        [paused => /\ position' = position
                   /\ \A m \in Markets : market'[m].mark_price = market[m].mark_price]_vars
    <2> SUFFICES ASSUME IInv, Next, paused
                 PROVE  /\ position' = position
                        /\ \A m \in Markets : market'[m].mark_price = market[m].mark_price
        OBVIOUS
    <2>1. CASE TradeStep
        BY <2>1, TradeStepKeeps
    <2>2. CASE PriceStep
        BY <2>2 DEF PriceStep, UpdateMarkPrice
    <2>3. CASE OwnerStep
        BY <2>3, OwnerStepKeeps
    <2>4. CASE VaultStep
        BY <2>4, VaultStepKeeps
    <2>5. QED
        BY <2>1, <2>2, <2>3, <2>4 DEF Next
<1>2. QED
    BY <1>1, Invariance, PTL DEF Spec, PauseFreezes

--------------------------------------------------------------------------------
(* The pool's surplus *)

PositionTables == [Markets -> [Traders -> PositionRecord]]
OwnMargins(pos, t) == [m \in Markets |-> pos[m][t].margin]
MarketMargins(pos) ==
    [m \in Markets |-> SumTo([t \in Traders |-> pos[m][t].margin], NumTraders)]

LEMMA MarginsType ==
    ASSUME NEW pos \in PositionTables
    PROVE  MarketMargins(pos) \in [1 .. NumMarkets -> Int] /\ TotalMargin(pos) \in Int
<1>1. NumMarkets \in Nat /\ NumTraders \in Nat
    BY EngineAssumption
<1>2. ASSUME NEW n \in Markets
      PROVE  SumTo([t \in Traders |-> pos[n][t].margin], NumTraders) \in Int
    <2> DEFINE g == [t \in Traders |-> pos[n][t].margin]
    <2>0. \A t \in Traders : pos[n][t].margin \in Int
        BY LedgerAssumption DEF PositionTables, PositionRecord, U64
    <2>1. g \in [1 .. NumTraders -> Int]
        BY <2>0 DEF Traders
    <2> HIDE DEF g
    <2>2. SumTo(g, NumTraders) \in Int
        BY <1>1, <2>1, SumType
    <2>3. QED
        BY <2>2 DEF g
<1>3. MarketMargins(pos) \in [1 .. NumMarkets -> Int]
    BY <1>2 DEF MarketMargins, Markets
<1>4. TotalMargin(pos) = SumTo(MarketMargins(pos), NumMarkets)
    BY DEF TotalMargin, MarketMargins
<1>5. QED
    BY <1>1, <1>3, <1>4, SumType

\* Replacing one position changes the margin entrusted to the pool, and the
\* margin of the position's trader, by the change of that position's margin.
LEMMA MarginTotals ==
    ASSUME NEW pos \in PositionTables, NEW m \in Markets, NEW t \in Traders, NEW p \in PositionRecord,
           NEW after, after = [pos EXCEPT ![m][t] = p]
    PROVE  /\ TotalMargin(pos) \in Int
           /\ TotalMargin(after) = TotalMargin(pos) - pos[m][t].margin + p.margin
           /\ SumTo(OwnMargins(pos, t), NumMarkets) \in Int
           /\ SumTo(OwnMargins(after, t), NumMarkets)
                = SumTo(OwnMargins(pos, t), NumMarkets) - pos[m][t].margin + p.margin
<1>1. /\ NumMarkets \in Nat /\ NumTraders \in Nat
      /\ m \in 1 .. NumMarkets /\ t \in 1 .. NumTraders
    BY EngineAssumption DEF Markets, Traders
<1>2. /\ p.margin \in Int
      /\ \A n \in Markets, i \in Traders : pos[n][i].margin \in Int
    BY LedgerAssumption DEF PositionTables, PositionRecord, U64
<1>3. /\ after \in PositionTables
      /\ \A n \in Markets, i \in Traders :
            after[n][i].margin = IF n = m /\ i = t THEN p.margin ELSE pos[n][i].margin
    BY DEF PositionTables
<1> DEFINE v == p.margin
           own == OwnMargins(pos, t)
           row == [i \in Traders |-> pos[m][i].margin]
           all == MarketMargins(pos)
           w == SumTo(row, NumTraders) - pos[m][t].margin + v
<1>4. own \in [1 .. NumMarkets -> Int] /\ row \in [1 .. NumTraders -> Int]
      /\ own[m] = pos[m][t].margin /\ row[t] = pos[m][t].margin
    BY <1>2 DEF OwnMargins, Markets, Traders
<1>5. all \in [1 .. NumMarkets -> Int] /\ all[m] = SumTo(row, NumTraders)
    BY MarginsType DEF MarketMargins
<1>6. OwnMargins(after, t) = [own EXCEPT ![m] = v]
    BY <1>3, ZenonT(60) DEF OwnMargins
<1>7. [i \in Traders |-> after[m][i].margin] = [row EXCEPT ![t] = v]
    BY <1>3
<1>8. \A n \in Markets \ {m} :
          [i \in Traders |-> after[n][i].margin] = [i \in Traders |-> pos[n][i].margin]
    BY <1>3
<1>9. v \in Int /\ pos[m][t].margin \in Int
    BY <1>2
<1> HIDE DEF own, row, v
<1>10. SumTo(row, NumTraders) \in Int /\ SumTo(own, NumMarkets) \in Int
    BY <1>1, <1>4, SumType
<1>11. /\ SumTo([row EXCEPT ![t] = v], NumTraders) = w /\ w \in Int
       /\ SumTo([own EXCEPT ![m] = v], NumMarkets) = SumTo(own, NumMarkets) - pos[m][t].margin + v
    <2>1. SumTo([row EXCEPT ![t] = v], NumTraders) = SumTo(row, NumTraders) - row[t] + v
        BY <1>1, <1>4, <1>9, SumUpdate
    <2>2. SumTo([own EXCEPT ![m] = v], NumMarkets) = SumTo(own, NumMarkets) - own[m] + v
        BY <1>1, <1>4, <1>9, SumUpdate
    <2>3. w \in Int
        BY <1>9, <1>10
    <2>4. QED
        BY <1>4, <2>1, <2>2, <2>3
<1>12. MarketMargins(after) = [all EXCEPT ![m] = w]
    <2>1. \A n \in Markets :
             SumTo([i \in Traders |-> after[n][i].margin], NumTraders)
                = IF n = m THEN w ELSE SumTo([i \in Traders |-> pos[n][i].margin], NumTraders)
        BY <1>7, <1>8, <1>11
    <2> HIDE DEF w
    <2>2. QED
        BY <2>1 DEF MarketMargins
<1> HIDE DEF all
<1>13. SumTo([all EXCEPT ![m] = w], NumMarkets) = SumTo(all, NumMarkets) - all[m] + w
       /\ SumTo(all, NumMarkets) \in Int
    <2> HIDE DEF w
    <2>1. QED
        BY <1>1, <1>5, <1>11, SumUpdate, SumType
<1>14. TotalMargin(pos) = SumTo(all, NumMarkets) /\ TotalMargin(after) = SumTo([all EXCEPT ![m] = w], NumMarkets)
    BY <1>12 DEF TotalMargin, MarketMargins, all
<1>15. QED
    BY <1>5, <1>6, <1>9, <1>10, <1>11, <1>13, <1>14, SMTT(30) DEF own, v

\* How far an instruction lowers the pool's surplus, and what it adds to a
\* trader's row and margins.
Drop == PoolSurplus(ledger, position) - PoolSurplus(ledger', position')
Gain(t) == Wealth(ledger', position', t) - Wealth(ledger, position, t)

\* Drop and gain of an instruction that replaces one position.
LEMMA SurplusStep ==
    ASSUME IInv, ledger' \in Ledgers, NEW m \in Markets, NEW t \in Traders,
           NEW p \in PositionRecord, position' = [position EXCEPT ![m][t] = p]
    PROVE  /\ Drop = Spendable(ledger, Pool) - Spendable(ledger', Pool)
                       + p.margin - position[m][t].margin
           /\ Gain(t) = Spendable(ledger', t) - Spendable(ledger, t)
                       + p.margin - position[m][t].margin
<1>1. position \in PositionTables
    BY DEF IInv, TypeOK, PositionTables, PositionRecord
<1> DEFINE old == position[m][t].margin
           a == TotalMargin(position)
           b == SumTo(OwnMargins(position, t), NumMarkets)
<1>2. /\ a \in Int /\ TotalMargin(position') = a - old + p.margin
      /\ b \in Int /\ SumTo(OwnMargins(position', t), NumMarkets) = b - old + p.margin
    BY <1>1, MarginTotals
<1>3. /\ t \in Accounts /\ Pool \in Accounts /\ ledger \in Ledgers /\ old \in Nat
    BY StateFacts
<1>4. /\ \A x \in Accounts : Spendable(ledger, x) \in Int /\ Spendable(ledger', x) \in Int
      /\ p.margin \in Int
    BY <1>3, LedgerAssumption DEF Spendable, Ledgers, U64, PositionRecord
<1>5. /\ Spendable(ledger, Pool) \in Int /\ Spendable(ledger', Pool) \in Int
      /\ Spendable(ledger, t) \in Int /\ Spendable(ledger', t) \in Int
      /\ old \in Int
    BY <1>3, <1>4
<1>6. /\ PoolSurplus(ledger, position) = Spendable(ledger, Pool) - TotalMargin(position)
      /\ PoolSurplus(ledger', position') = Spendable(ledger', Pool) - TotalMargin(position')
    BY DEF PoolSurplus
<1>7. /\ Wealth(ledger, position, t)
            = Spendable(ledger, t) + SumTo(OwnMargins(position, t), NumMarkets)
      /\ Wealth(ledger', position', t)
            = Spendable(ledger', t) + SumTo(OwnMargins(position', t), NumMarkets)
    BY DEF Wealth, OwnMargins
<1> HIDE DEF old
<1>8. Drop = Spendable(ledger, Pool) - Spendable(ledger', Pool) + p.margin - old
    <2>1. Drop = PoolSurplus(ledger, position) - PoolSurplus(ledger', position')
        BY DEF Drop
    <2>2. QED
        BY <1>2, <1>4, <1>5, <1>6, <2>1
<1>9. Gain(t) = Spendable(ledger', t) - Spendable(ledger, t) + p.margin - old
    <2>1. Gain(t) = Wealth(ledger', position', t) - Wealth(ledger, position, t)
        BY DEF Gain
    <2>2. QED
        BY <1>2, <1>4, <1>5, <1>7, <2>1
<1>10. QED
    BY <1>8, <1>9 DEF old

\* What the trader and the pool settle between them the trader gains exactly
\* when the pool's surplus loses it.
LEMMA SettledFairly ==
    ASSUME IInv, ledger' \in Ledgers, NEW m \in Markets, NEW t \in Traders, Settled(m, t)
    PROVE  Drop = Gain(t)
<1>1. PICK p \in PositionRecord : position' = [position EXCEPT ![m][t] = p]
    BY DEF Settled
<1>2. /\ Drop = Spendable(ledger, Pool) - Spendable(ledger', Pool)
                       + p.margin - position[m][t].margin
      /\ Gain(t) = Spendable(ledger', t) - Spendable(ledger, t)
                       + p.margin - position[m][t].margin
    BY <1>1, SurplusStep
<1>3. /\ t \in Accounts /\ Pool \in Accounts /\ ledger \in Ledgers
      /\ position[m][t].margin \in Int
    BY StateFacts
<1>4. /\ \A x \in Accounts : Spendable(ledger, x) \in Int /\ Spendable(ledger', x) \in Int
      /\ p.margin \in Int
    BY <1>3, LedgerAssumption DEF Spendable, Ledgers, U64, PositionRecord
<1>5. Spendable(ledger', Pool) + Spendable(ledger', t) = Spendable(ledger, Pool) + Spendable(ledger, t)
    BY DEF Settled
<1>6. QED
    BY <1>2, <1>3, <1>4, <1>5

\* A liquidation never lowers the pool's surplus: out of the pool goes what a
\* losing position left, which is at most its margin.
LEMMA LiquidationKeepsSurplus ==
    ASSUME IInv, NEW op, NEW m \in Markets, NEW t \in Traders,
           NEW keeper \in Accounts, NEW insurance \in Accounts,
           LiquidatePosition(op, m, t, keeper, insurance),
           insurance_fund_balance # NoAccount,
           2 * market[m].maintenance_margin_bps <= BPS
    PROVE  ~ (Drop > 0)
<1> DEFINE mkt == market[m]
           pos == position[m][t]
           pnl == Pnl(pos.size, pos.entry_price, mkt.mark_price)
           notional == Notional(Abs(pos.size), mkt.mark_price)
           left == pos.margin + pnl
           bounty == Share(KEEPER_REWARD_BAD_DEBT_BPS, notional)
           reward == AtMost(left \div 2, Share(KEEPER_REWARD_CAP_BPS, notional))
           rest == left - reward
<1>1. /\ pos.size # 0 /\ Liquidatable(mkt, pos)
      /\ insurance_fund_balance \in {insurance, NoAccount}
      /\ IF left <= 0
         THEN /\ bounty \in U64
              /\ CanPay(ledger, insurance, keeper, bounty)
              /\ ledger' = Paid(ledger, insurance, keeper, bounty)
         ELSE /\ reward \in U64 /\ rest \in U64
              /\ PayTwice(Pool, keeper, reward, Pool, insurance, rest)
      /\ position' = [position EXCEPT ![m][t] = NoPosition]
    BY DEF LiquidatePosition, LiquidationAllowed, LeftAtMark, KeeperBounty, KeeperReward,
           NotionalAtMark, Emptied
<1>2. insurance = Insurance
    BY <1>1 DEF IInv, TypeOK
<1>3. /\ Pool \in Accounts /\ ledger \in Ledgers /\ vault_gate \in VaultGates
      /\ Pool # Insurance /\ pos.margin \in Nat /\ pos.size \in Int /\ pos.entry_price \in Nat
      /\ mkt.mark_price \in Nat
    BY StateFacts
<1>4. pnl \in Int /\ pnl <= 0
    <2>1. pnl \in Int
        BY <1>3, PnlType
    <2>2. pnl <= 0
        BY <1>1, InvariantOnlyLosers DEF OnlyLosersLiquidatable
    <2>3. QED
        BY <2>1, <2>2
<1> HIDE DEF pnl, bounty, reward
<1>5. U64 \subseteq Nat
    BY LedgerAssumption DEF U64
<1>6. \A a \in Accounts : Spendable(ledger, a) \in Nat
    BY <1>3, LedgerAssumption DEF Spendable, Ledgers, U64
<1>7. /\ ledger' \in Ledgers
      /\ Spendable(ledger, Pool) - Spendable(ledger', Pool) <= pos.margin
    <2>1. CASE left <= 0
        <3>1. /\ bounty \in Nat /\ CanPay(ledger, insurance, keeper, bounty)
              /\ ledger' = Paid(ledger, insurance, keeper, bounty)
            BY <1>1, <1>5, <2>1
        <3>2. /\ ledger' \in Ledgers
              /\ Spendable(ledger', Pool) = IF Pool = keeper THEN Spendable(ledger, Pool) + bounty
                                            ELSE Spendable(ledger, Pool)
            BY <1>2, <1>3, <3>1, PaidFacts
        <3>3. QED
            BY <1>3, <1>6, <3>1, <3>2
    <2>2. CASE ~ (left <= 0)
        <3>1. /\ reward \in Nat /\ rest \in Nat
              /\ PayTwice(Pool, keeper, reward, Pool, insurance, rest)
            BY <1>1, <1>5, <2>2
        <3>2. reward + rest = left /\ left <= pos.margin
            BY <1>3, <1>4, <3>1
        <3> HIDE DEF rest, left
        <3>3. /\ ledger' \in Ledgers
              /\ Spendable(ledger', Pool) = Spendable(ledger, Pool) - reward - rest
            BY <1>3, <1>6, <3>1, PaidTwiceFacts
        <3>4. QED
            BY <1>3, <1>6, <3>1, <3>2, <3>3
    <2>3. QED
        BY <2>1, <2>2
<1>8. Drop = Spendable(ledger, Pool) - Spendable(ledger', Pool) + 0 - pos.margin
    BY <1>1, <1>7, EmptyRecord, SurplusStep
<1>9. Spendable(ledger', Pool) \in Int
    BY <1>3, <1>7, LedgerAssumption DEF Spendable, Ledgers, U64
<1>10. QED
    BY <1>3, <1>6, <1>7, <1>8, <1>9

\* Whatever is not a trade leaves the margins alone and takes nothing out of
\* the pool's row.
LEMMA ElsewhereKeepsSurplus ==
    ASSUME IInv, PriceStep \/ OwnerStep \/ VaultStep \/ UNCHANGED vars
    PROVE  ~ (Drop > 0)
<1>1. /\ Pool \in Accounts /\ ledger \in Ledgers
      /\ \A t \in Traders : t \in Accounts /\ t # Pool
    BY EngineAssumption, LedgerAssumption DEF Accounts, Traders, IInv, TypeOK
<1>2. \A led \in Ledgers : Spendable(led, Pool) \in Int
    BY <1>1, LedgerAssumption DEF Spendable, Ledgers, U64
<1>3. IInv' /\ position' = position
    <2>1. CASE PriceStep
        <3>1. PICK op \in Keys, m \in Markets, price \in Prices : UpdateMarkPrice(op, m, price)
            BY <2>1 DEF PriceStep
        <3>2. price \in U64
            BY EngineAssumption
        <3>3. QED
            BY <3>1, <3>2, UpdateMarkPriceStep
    <2>2. CASE OwnerStep
        BY <2>2, OwnerStepKeeps
    <2>3. CASE VaultStep
        BY <2>3, VaultStepKeeps
    <2>4. CASE UNCHANGED vars
        BY <2>4, NextIInv DEF vars
    <2>5. QED
        BY <2>1, <2>2, <2>3, <2>4
<1>4. ledger' \in Ledgers
    BY <1>3 DEF IInv, TypeOK
<1>5. Spendable(ledger', Pool) >= Spendable(ledger, Pool)
    <2>1. CASE ledger' = ledger
        BY <1>1, <1>2, <2>1
    <2>2. ASSUME NEW t \in Traders, ledger'.balance[Pool] = ledger.balance[Pool],
                 ledger'.collateral_balance = ledger.collateral_balance
          PROVE  Spendable(ledger', Pool) >= Spendable(ledger, Pool)
        <3>1. Spendable(ledger', Pool) = Spendable(ledger, Pool)
            BY <2>2 DEF Spendable
        <3>2. QED
            BY <1>1, <1>2, <3>1
    <2>3. ASSUME NEW t \in Traders, NEW amount \in Transfers, VaultDeposit(t, amount)
          PROVE  Spendable(ledger', Pool) >= Spendable(ledger, Pool)
        <3>1. ledger' = [ledger EXCEPT !.balance[t] = @ + amount]
            BY <2>3 DEF VaultDeposit
        <3>2. ledger'.balance[Pool] = ledger.balance[Pool]
              /\ ledger'.collateral_balance = ledger.collateral_balance
            BY <1>1, <3>1 DEF Ledgers
        <3>3. QED
            BY <2>2, <3>2
    <2>4. ASSUME NEW t \in Traders, NEW amount \in Transfers, VaultWithdraw(t, amount)
          PROVE  Spendable(ledger', Pool) >= Spendable(ledger, Pool)
        <3>1. ledger' = [ledger EXCEPT !.balance[t] = @ - amount]
            BY <2>4 DEF VaultWithdraw
        <3>2. ledger'.balance[Pool] = ledger.balance[Pool]
              /\ ledger'.collateral_balance = ledger.collateral_balance
            BY <1>1, <3>1 DEF Ledgers
        <3>3. QED
            BY <2>2, <3>2
    <2>5. ASSUME NEW key \in Keys, NEW amount \in PoolFunding, BootstrapEnginePool(key, amount)
          PROVE  Spendable(ledger', Pool) >= Spendable(ledger, Pool)
        <3>1. ledger' = [ledger EXCEPT !.balance[Pool] = @ + amount]
            BY <2>5 DEF BootstrapEnginePool
        <3>2. amount \in Nat
            BY EngineAssumption, LedgerAssumption DEF U64
        <3>3. /\ ledger'.balance[Pool] = ledger.balance[Pool] + amount
              /\ ledger'.collateral_balance = ledger.collateral_balance
              /\ ledger.balance[Pool] \in Nat /\ ledger.collateral_balance[Pool] \in Nat
            BY <1>1, <3>1, LedgerAssumption DEF Ledgers, U64
        <3>4. QED
            BY <3>2, <3>3 DEF Spendable
    <2>6. CASE PriceStep
        BY <2>1, <2>6 DEF PriceStep, UpdateMarkPrice
    <2>7. CASE OwnerStep
        BY <2>1, <2>5, <2>7 DEF OwnerStep, AddMarket, Pause, Unpause, SetInsuranceFundBalance,
                                SetOperator, TransferOwnership, AcceptOwnership
    <2>8. CASE VaultStep
        BY <2>1, <2>3, <2>4, <2>8 DEF VaultStep, SetVaultGate
    <2>9. QED
        BY <2>1, <2>6, <2>7, <2>8 DEF vars
<1> DEFINE x == Spendable(ledger, Pool)
           y == Spendable(ledger', Pool)
           z == TotalMargin(position)
<1>6. x \in Int /\ y \in Int /\ z \in Int
    BY <1>1, <1>2, <1>4, MarginsType DEF IInv, TypeOK, PositionTables, PositionRecord
<1>7. Drop = x - z - (y - z)
    BY <1>3 DEF Drop, PoolSurplus
<1> HIDE DEF x, y, z
<1>8. ~ (x - z - (y - z) > 0)
    BY <1>5, <1>6 DEF x, y
<1>9. QED
    BY <1>7, <1>8

\* Only a trade can lower the pool's surplus, and then by the gain of the
\* trader it settles with.
LEMMA SurplusFallsByAGain ==
    ASSUME IInv, [Next]_vars, insurance_fund_balance # NoAccount,
           \A m \in Markets : 2 * market[m].maintenance_margin_bps <= BPS,
           Drop > 0
    PROVE  \E t \in Traders : Gain(t) = Drop
<1>1. SizeDeltas \subseteq Int /\ Prices \subseteq U64 /\ Prices \subseteq Nat
    BY EngineAssumption, LedgerAssumption DEF U64
<1>2. TradeStep
    BY ElsewhereKeepsSurplus DEF Next
<1>3. PICK op \in Keys, m \in Markets, t \in Traders :
        \/ \E size_delta \in SizeDeltas, fill_price \in Prices :
              \/ OpenPosition(op, m, t, size_delta, fill_price)
              \/ ReducePosition(op, m, t, size_delta, fill_price)
        \/ \E fill_price \in Prices : ClosePosition(op, m, t, fill_price)
        \/ \E keeper, insurance \in Accounts : LiquidatePosition(op, m, t, keeper, insurance)
    BY <1>2 DEF TradeStep
<1>4. ASSUME NEW size_delta \in SizeDeltas, NEW fill_price \in Prices,
             OpenPosition(op, m, t, size_delta, fill_price)
      PROVE  LedgerKept /\ Settled(m, t)
    BY <1>1, <1>4, OpenPositionStep
<1>5. ASSUME NEW size_delta \in SizeDeltas, NEW fill_price \in Prices,
             ReducePosition(op, m, t, size_delta, fill_price)
      PROVE  LedgerKept /\ Settled(m, t)
    BY <1>1, <1>5, ReducePositionStep
<1>6. ASSUME NEW fill_price \in Prices, ClosePosition(op, m, t, fill_price)
      PROVE  LedgerKept /\ Settled(m, t)
    BY <1>1, <1>6, ClosePositionStep
<1>7. ~ \E keeper, insurance \in Accounts : LiquidatePosition(op, m, t, keeper, insurance)
    BY LiquidationKeepsSurplus
<1>8. LedgerKept /\ Settled(m, t)
    BY <1>3, <1>4, <1>5, <1>6, <1>7
<1>9. Drop = Gain(t)
    BY <1>8, SettledFairly DEF LedgerKept
<1>10. QED
    BY <1>9

\* The pool's surplus over the margins falls only by a profit paid to one
\* trader: with an insurance balance configured and maintenance margins of at
\* most half the notional.
THEOREM PoolAlwaysPaysOnlyProfits == Spec => PoolPaysOnlyProfits
<1>1. IInv /\ [Next]_vars =>
        [LET drop == PoolSurplus(ledger, position) - PoolSurplus(ledger', position')
         IN  /\ insurance_fund_balance # NoAccount
             /\ \A m \in Markets : 2 * market[m].maintenance_margin_bps <= BPS
             /\ drop > 0
             => \E t \in Traders :
                   Wealth(ledger', position', t) - Wealth(ledger, position, t) = drop]_vars
    BY SurplusFallsByAGain DEF Drop, Gain
<1>2. QED
    BY <1>1, Invariance, PTL DEF Spec, PoolPaysOnlyProfits

--------------------------------------------------------------------------------
(* What a venue's fill does to a book, whichever call it is routed to *)

LEMMA LeftBehindType ==
    ASSUME NEW old \in PositionRecord, NEW new \in PositionRecord, NEW price \in Nat
    PROVE  LeftBehind(old, new, price) \in Nat
<1>1. /\ old.size \in Int /\ old.entry_price \in Nat /\ old.margin \in Nat /\ new.margin \in Nat
    BY LedgerAssumption DEF PositionRecord, I64, MaxI64, U64
<1> DEFINE pnl == Pnl(old.size, old.entry_price, price)
<1>2. pnl \in Int
    BY <1>1, PnlType
<1> HIDE DEF pnl
<1>3. SatSub(old.margin, new.margin) \in Nat /\ SatSub(0, pnl) \in Nat
    BY <1>1, <1>2 DEF SatSub
<1>4. QED
    BY <1>3 DEF LeftBehind, pnl

\* A part of a position loses no more than all of it.
LEMMA PartLosesLess ==
    ASSUME NEW part \in Int, NEW size \in Int, NEW entry \in Nat, NEW price \in Nat,
           Sign(part) = Sign(size), Abs(part) <= Abs(size)
    PROVE  SatSub(0, Pnl(part, entry, price)) <= SatSub(0, Pnl(size, entry, price))
<1> DEFINE gap == IF size > 0 THEN price - entry ELSE entry - price
           a == Abs(part)
           z == Abs(size)
<1>0. SIZE_PRECISION \in Nat \ {0}
    BY EngineAssumption
<1>1. gap \in Int /\ a \in Nat /\ z \in Nat /\ a <= z
    BY Magnitude
<1>2. part > 0 <=> size > 0
    BY DEF Sign
<1>3. /\ Pnl(size, entry, price) = TruncDiv(gap * z, SIZE_PRECISION)
      /\ Pnl(part, entry, price) = TruncDiv(gap * a, SIZE_PRECISION)
    BY <1>2 DEF Pnl
<1> HIDE DEF gap, a, z
<1>4. CASE gap >= 0
    <2> DEFINE x == gap * z
               y == gap * a
    <2>1. x \in Nat /\ y \in Nat
        BY <1>1, <1>4
    <2> HIDE DEF x, y
    <2>2. x \div SIZE_PRECISION \in Nat /\ y \div SIZE_PRECISION \in Nat
        BY <1>0, <2>1, DivFacts
    <2>3. TruncDiv(x, SIZE_PRECISION) \in Nat /\ TruncDiv(y, SIZE_PRECISION) \in Nat
        BY <2>1, <2>2 DEF TruncDiv
    <2>4. Pnl(size, entry, price) \in Nat /\ Pnl(part, entry, price) \in Nat
        BY <1>3, <2>3 DEF x, y
    <2>5. QED
        BY <2>4 DEF SatSub
<1>5. CASE gap < 0
    <2> DEFINE loss == -gap
               x == loss * z
               y == loss * a
    <2>1. loss \in Nat /\ gap = -loss
        BY <1>1, <1>5
    <2> HIDE DEF loss
    <2>2. x \in Nat /\ y \in Nat /\ y <= x
        BY <1>1, <2>1, ProductMonotone
    <2>3. gap * z = -x /\ gap * a = -y
        BY <1>1, <2>1
    <2> HIDE DEF x, y
    <2>4. /\ x \div SIZE_PRECISION \in Nat /\ y \div SIZE_PRECISION \in Nat
          /\ y \div SIZE_PRECISION <= x \div SIZE_PRECISION
          /\ 0 \div SIZE_PRECISION = 0
        BY <1>0, <2>2, DivFacts, DivMonotone
    <2>5. -(-x) = x /\ -(-y) = y
        BY <2>2
    <2>6. /\ TruncDiv(-x, SIZE_PRECISION) = -(x \div SIZE_PRECISION)
          /\ TruncDiv(-y, SIZE_PRECISION) = -(y \div SIZE_PRECISION)
        BY <2>2, <2>4, <2>5 DEF TruncDiv
    <2>7. /\ Pnl(size, entry, price) = -(x \div SIZE_PRECISION)
          /\ Pnl(part, entry, price) = -(y \div SIZE_PRECISION)
        BY <1>3, <2>3, <2>6
    <2>8. QED
        BY <2>4, <2>7 DEF SatSub
<1>6. QED
    BY <1>1, <1>4, <1>5

\* What a fill that leaves a trader with position p brings the pool beyond
\* the change of that position's margin.
Left(b, after, m, t, p) ==
    Spendable(after.ledger, Pool) - Spendable(b.ledger, Pool) - (p.margin - b.position[m][t].margin)

LEMMA OpenLeaves ==
    ASSUME NEW b, Sound(b), vault_gate \in VaultGates, NEW m \in Markets, NEW t \in Traders,
           NEW size_delta \in Int, NEW fill_price \in U64,
           OpenLegAllowed(b, m, t, size_delta, fill_price), Grows(b, m, t, size_delta),
           NEW p, p = Grown(b, m, t, size_delta, fill_price),
           NEW after, after = OpenLeg(b, m, t, size_delta, fill_price)
    PROVE  /\ Left(b, after, m, t, p) <= LeftBehind(b.position[m][t], p, fill_price)
           /\ b.position[m][t].size = 0 => p.entry_price = fill_price
<1> DEFINE pos == b.position[m][t]
<1>1. /\ pos \in PositionRecord /\ pos.size \in Int /\ pos.margin \in Nat
      /\ pos.entry_price \in Nat /\ b.market[m].initial_margin_bps \in Nat
      /\ U64 \subseteq Nat
      /\ PositionSound(b.market[m], pos)
    BY BookFacts
<1>2. fill_price \in Nat
    BY <1>1
<1>3. /\ p \in PositionRecord /\ p.size = pos.size + size_delta
      /\ PoolGets(b, after, SatSub(p.margin, pos.margin))
    BY <1>2, OpenLegStep
<1>4. size_delta # 0
    BY DEF OpenLegAllowed
<1>5. p.margin \in Nat
    BY <1>1, <1>3 DEF PositionRecord
<1>6. Left(b, after, m, t, p) = SatSub(pos.margin, p.margin)
    BY <1>1, <1>3, <1>5 DEF Left, PoolGets, SatSub
<1>7. pos.size = 0 => p.entry_price = fill_price
    BY DEF Grown, EntryPrice
<1>8. CASE pos.size = 0
    <2> DEFINE bps == b.market[m].initial_margin_bps
               entry == pos.entry_price
    <2>1. pos.margin = RequiredMargin(bps, Abs(0), entry)
        BY <1>1, <1>8 DEF PositionSound
    <2>2. bps \in Nat /\ entry \in Nat /\ Abs(0) = 0
        BY <1>1, Magnitude
    <2> HIDE DEF bps, entry
    <2>3. pos.margin = 0
        BY <2>1, <2>2, NoMarginForNothing
    <2>4. SatSub(pos.margin, p.margin) = 0
        BY <1>5, <2>3 DEF SatSub
    <2>5. LeftBehind(pos, p, fill_price) \in Nat
        BY <1>1, <1>2, <1>3, LeftBehindType
    <2>6. QED
        BY <1>6, <1>7, <2>4, <2>5
<1>9. CASE pos.size # 0
    <2>1. pos.size > 0 <=> size_delta > 0
        BY <1>9 DEF Grows
    <2>2. Sign(p.size) = Sign(pos.size) /\ Abs(p.size) > Abs(pos.size)
        BY <1>1, <1>3, <1>4, <1>9, <2>1 DEF Sign, Abs
    <2>3. p # pos
        BY <1>1, <1>3, <1>4
    <2>4. LeftBehind(pos, p, fill_price) = SatSub(pos.margin, p.margin)
        BY <2>2, <2>3 DEF LeftBehind
    <2>5. SatSub(pos.margin, p.margin) \in Nat
        BY <1>1, <1>5 DEF SatSub
    <2>6. QED
        BY <1>6, <1>9, <2>4, <2>5
<1>10. QED
    BY <1>8, <1>9

\* Margin and profit and loss settled together leave at most the loss.
LEMMA ReturnLeaves ==
    ASSUME NEW freed \in Nat, NEW pnl \in Int
    PROVE  freed - CloseReturn(freed, pnl) <= SatSub(0, pnl)
BY DEF CloseReturn, SatSub

LEMMA CloseLeaves ==
    ASSUME NEW b, Sound(b), vault_gate \in VaultGates, NEW m \in Markets, NEW t \in Traders,
           NEW fill_price \in U64, CloseLegAllowed(b, m, t, fill_price),
           NEW after, after = CloseLeg(b, m, t, fill_price)
    PROVE  Left(b, after, m, t, NoPosition) <= LeftBehind(b.position[m][t], NoPosition, fill_price)
<1> DEFINE pos == b.position[m][t]
           pnl == Pnl(pos.size, pos.entry_price, fill_price)
           owed == OwedOnClose(pos, fill_price)
<1>1. /\ pos.size \in Int /\ pos.size # 0 /\ pos.margin \in Nat /\ pos.entry_price \in Nat
      /\ fill_price \in Nat
    BY BookFacts DEF CloseLegAllowed
<1>2. pnl \in Int
    BY <1>1, PnlType
<1>3. PoolGets(b, after, -owed) /\ owed \in Nat /\ owed = CloseReturn(pos.margin, pnl)
    BY <1>1, CloseLegStep DEF OwedOnClose
<1> HIDE DEF pnl, owed
<1>4. NoPosition.size = 0 /\ NoPosition.margin = 0
    BY DEF NoPosition
<1>5. LeftBehind(pos, NoPosition, fill_price) = SatSub(0, pnl)
    <2>1. NoPosition # pos /\ Sign(NoPosition.size) # Sign(pos.size)
        BY <1>1, <1>4 DEF Sign
    <2>2. QED
        BY <2>1 DEF LeftBehind, pnl
<1>6. Left(b, after, m, t, NoPosition) = pos.margin - owed
    BY <1>1, <1>3, <1>4 DEF Left, PoolGets
<1>7. QED
    BY <1>1, <1>2, <1>3, <1>5, <1>6, ReturnLeaves

LEMMA ReduceLeaves ==
    ASSUME NEW b, Sound(b), vault_gate \in VaultGates, NEW m \in Markets, NEW t \in Traders,
           NEW size_delta \in Int, NEW fill_price \in U64,
           ReduceLegAllowed(b, m, t, size_delta, fill_price),
           NEW p, p = Shrunk(b, m, t, size_delta, fill_price),
           NEW after, after = ReduceLeg(b, m, t, size_delta, fill_price)
    PROVE  Left(b, after, m, t, p) <= LeftBehind(b.position[m][t], p, fill_price)
<1> DEFINE pos == b.position[m][t]
           locked == LockedOnFlip(pos, p)
           owed == OwedOnReduce(pos, p, fill_price)
           full == Pnl(pos.size, pos.entry_price, fill_price)
           pnl == RealizedPnl(pos, p, fill_price)
           freed == ReleasedMargin(pos, p)
<1>1. /\ pos \in PositionRecord /\ pos.size \in Int /\ pos.margin \in Nat
      /\ pos.entry_price \in Nat /\ fill_price \in Nat /\ U64 \subseteq Nat
    BY BookFacts
<1>2. /\ p \in PositionRecord /\ p.size = pos.size + size_delta
      /\ locked \in Nat /\ owed \in Nat
      /\ PoolGets(b, after, locked - owed)
    BY ReduceLegStep
<1>3. /\ pos.size # 0 /\ p.size # 0
      /\ Sign(p.size) = Sign(pos.size) => Abs(p.size) < Abs(pos.size)
      /\ size_delta # 0
    BY DEF ReduceLegAllowed, IsFlip
<1>4. p.margin \in Nat /\ p.size \in Int
    BY <1>1, <1>2 DEF PositionRecord
<1>5. /\ full \in Int
      /\ LeftBehind(pos, p, fill_price) = SatSub(0, full)
    <2>1. full \in Int
        BY <1>1, PnlType
    <2>2. p # pos /\ ~ (Sign(p.size) = Sign(pos.size) /\ Abs(p.size) > Abs(pos.size))
        <3>1. Abs(p.size) \in Nat /\ Abs(pos.size) \in Nat
            BY <1>1, <1>4, Magnitude
        <3>2. QED
            BY <1>1, <1>2, <1>3, <3>1
    <2>3. QED
        BY <2>1, <2>2 DEF LeftBehind
<1>6. owed = CloseReturn(freed, pnl)
    BY DEF OwedOnReduce
<1>7. Left(b, after, m, t, p) = locked - owed - (p.margin - pos.margin)
    BY <1>2 DEF Left, PoolGets
<1>8. CASE Sign(pos.size) # Sign(p.size)
    <2>1. locked = p.margin /\ freed = pos.margin /\ pnl = full
        BY <1>8 DEF LockedOnFlip, ReleasedMargin, RealizedPnl, IsFlip, ClosedSize
    <2> HIDE DEF locked, owed, full, pnl, freed
    <2>2. pos.margin - owed <= SatSub(0, full)
        BY <1>1, <1>5, <1>6, <2>1, ReturnLeaves
    <2>3. Left(b, after, m, t, p) = pos.margin - owed
        BY <1>1, <1>2, <1>4, <1>7, <2>1
    <2>4. QED
        BY <1>5, <2>2, <2>3
<1>9. CASE Sign(pos.size) = Sign(p.size)
    <2> DEFINE part == ClosedSize(pos.size, p.size)
    <2>1. locked = 0 /\ freed = SatSub(pos.margin, p.margin)
          /\ pnl = Pnl(part, pos.entry_price, fill_price)
        BY <1>9 DEF LockedOnFlip, ReleasedMargin, RealizedPnl, IsFlip
    <2>2. part \in Int /\ Sign(part) = Sign(pos.size) /\ Abs(part) <= Abs(pos.size)
        BY <1>1, <1>3, <1>4, <1>9 DEF ClosedSize, Sign, Abs
    <2> HIDE DEF part
    <2>3. pnl \in Int /\ SatSub(0, pnl) <= SatSub(0, full)
        BY <1>1, <2>1, <2>2, PnlType, PartLosesLess
    <2> HIDE DEF locked, owed, full, pnl, freed
    <2>4. freed \in Nat /\ pos.margin - p.margin <= freed
        BY <1>1, <1>4, <2>1 DEF SatSub
    <2>5. freed - owed <= SatSub(0, pnl)
        BY <1>6, <2>3, <2>4, ReturnLeaves
    <2>6. SatSub(0, pnl) \in Nat /\ SatSub(0, full) \in Nat
        BY <1>5, <2>3 DEF SatSub
    <2>7. Left(b, after, m, t, p) = pos.margin - p.margin - owed
        BY <1>1, <1>2, <1>4, <1>7, <2>1
    <2>8. QED
        BY <1>1, <1>2, <1>4, <1>5, <2>3, <2>4, <2>5, <2>6, <2>7
<1>10. QED
    BY <1>8, <1>9

\* A fill, whichever call it became: the trader's size changes by what was
\* traded, a new position enters at the price of the fill, the book stays
\* sound, and the pool keeps no more than LeftBehind.
LEMMA LegStep ==
    ASSUME NEW b, Sound(b), vault_gate \in VaultGates, NEW op, NEW m \in Markets, NEW t \in Traders,
           NEW size_delta \in Int, NEW fill_price \in U64,
           LegAllowed(b, op, m, t, size_delta, fill_price)
    PROVE  LET after == Leg(b, m, t, size_delta, fill_price)
           IN  \E p \in PositionRecord :
                   /\ p.size = b.position[m][t].size + size_delta
                   /\ b.position[m][t].size = 0 => p.entry_price = fill_price
                   /\ LegDone(b, after, m, t, p)
                   /\ Left(b, after, m, t, p) <= LeftBehind(b.position[m][t], p, fill_price)
<1> DEFINE after == Leg(b, m, t, size_delta, fill_price)
           pos == b.position[m][t]
           Done(a, p) == /\ p \in PositionRecord
                         /\ p.size = pos.size + size_delta
                         /\ pos.size = 0 => p.entry_price = fill_price
                         /\ LegDone(b, a, m, t, p)
                         /\ Left(b, a, m, t, p) <= LeftBehind(pos, p, fill_price)
<1>0. fill_price \in Nat
    BY BookFacts
<1>1. CASE Grows(b, m, t, size_delta)
    <2>1. OpenLegAllowed(b, m, t, size_delta, fill_price)
          /\ after = OpenLeg(b, m, t, size_delta, fill_price)
        BY <1>1 DEF LegAllowed, Leg
    <2> HIDE DEF after
    <2>2. Done(after, Grown(b, m, t, size_delta, fill_price))
        BY <1>0, <1>1, <2>1, OpenLegStep, OpenLeaves
    <2>3. QED
        BY <2>2 DEF after
<1>2. CASE ~ Grows(b, m, t, size_delta) /\ Empties(b, m, t, size_delta)
    <2>1. CloseLegAllowed(b, m, t, fill_price) /\ after = CloseLeg(b, m, t, fill_price)
        BY <1>2 DEF LegAllowed, Leg
    <2>2. pos.size + size_delta = 0 /\ pos.size # 0
        BY <1>2 DEF Empties, Grows
    <2> HIDE DEF after
    <2>3. /\ LegDone(b, after, m, t, NoPosition)
          /\ Left(b, after, m, t, NoPosition) <= LeftBehind(pos, NoPosition, fill_price)
        BY <1>0, <2>1, CloseLegStep, CloseLeaves
    <2>4. Done(after, NoPosition)
        BY <2>2, <2>3, EmptyRecord
    <2>5. QED
        BY <2>4 DEF after
<1>3. CASE ~ Grows(b, m, t, size_delta) /\ ~ Empties(b, m, t, size_delta)
    <2>1. ReduceLegAllowed(b, m, t, size_delta, fill_price)
          /\ after = ReduceLeg(b, m, t, size_delta, fill_price)
        BY <1>3 DEF LegAllowed, Leg
    <2>2. pos.size # 0
        BY <1>3 DEF Grows
    <2> HIDE DEF after
    <2>3. Done(after, Shrunk(b, m, t, size_delta, fill_price))
        BY <2>1, <2>2, ReduceLegStep, ReduceLeaves
    <2>4. QED
        BY <2>3 DEF after
<1>4. QED
    BY <1>1, <1>2, <1>3

\* A fee moves its amount and nothing else.
LEMMA FeeFacts ==
    ASSUME NEW led \in Ledgers, NEW from \in Accounts, NEW to \in Accounts, NEW amount \in Nat,
           vault_gate \in VaultGates, FeePayable(led, from, to, amount)
    PROVE  /\ Paid(led, from, to, amount) \in Ledgers
           /\ TotalBalance(Paid(led, from, to, amount)) = TotalBalance(led)
           /\ TotalCollateral(Paid(led, from, to, amount)) = TotalCollateral(led)
           /\ \A a \in Accounts :
                /\ Spendable(led, a) \in Nat
                /\ Spendable(Paid(led, from, to, amount), a) =
                      IF a = from THEN Spendable(led, a) - amount
                      ELSE IF a = to THEN Spendable(led, a) + amount ELSE Spendable(led, a)
<1>1. \A a \in Accounts : Spendable(led, a) \in Nat
    BY LedgerAssumption DEF Spendable, Ledgers, U64
<1>2. CASE amount = 0
    BY <1>1, <1>2 DEF Paid
<1>3. CASE amount > 0
    <2>1. vault_gate.max_per_tx \in U64
        BY EngineAssumption
    <2>2. TransferAllowed(led, from, to, amount, vault_gate.max_per_tx)
        BY <1>3 DEF FeePayable
    <2>3. Paid(led, from, to, amount) = Transferred(led, from, to, amount)
        BY <1>3 DEF Paid
    <2>4. QED
        BY <1>1, <2>1, <2>2, <2>3, TransferFacts
<1>4. QED
    BY <1>2, <1>3

\* The change of the pool's surplus in a fill is what the fill leaves there.
LEMMA SurplusOfFill ==
    ASSUME NEW b, Sound(b), NEW m \in Markets, NEW t \in Traders, NEW p \in PositionRecord,
           NEW after, LegDone(b, after, m, t, p)
    PROVE  /\ PoolSurplus(after.ledger, after.position) - PoolSurplus(b.ledger, b.position)
                  = Left(b, after, m, t, p)
           /\ PoolSurplus(after.ledger, after.position) \in Int
           /\ PoolSurplus(b.ledger, b.position) \in Int
<1>1. /\ b.position \in PositionTables /\ b.ledger \in Ledgers /\ Pool \in Accounts
      /\ b.position[m][t].margin \in Nat
    BY BookFacts DEF PositionTables
<1>2. after.ledger \in Ledgers /\ after.position = [b.position EXCEPT ![m][t] = p]
    BY DEF LegDone, Sound, BookRecord
<1> DEFINE old == TotalMargin(b.position)
           new == TotalMargin(after.position)
           s == Spendable(b.ledger, Pool)
           r == Spendable(after.ledger, Pool)
<1>3. old \in Int /\ new = old - b.position[m][t].margin + p.margin
    <2> DEFINE pos0 == b.position
               pos1 == after.position
    <2>1. pos0 \in PositionTables /\ pos1 = [pos0 EXCEPT ![m][t] = p]
        BY <1>1, <1>2
    <2> HIDE DEF pos0, pos1
    <2>2. /\ TotalMargin(pos0) \in Int
          /\ TotalMargin(pos1) = TotalMargin(pos0) - pos0[m][t].margin + p.margin
        BY <2>1, MarginTotals
    <2>3. QED
        BY <2>2 DEF pos0, pos1
<1>4. s \in Int /\ r \in Int /\ p.margin \in Int
    BY <1>1, <1>2, LedgerAssumption DEF Spendable, Ledgers, U64, PositionRecord
<1>5. /\ PoolSurplus(b.ledger, b.position) = s - old
      /\ PoolSurplus(after.ledger, after.position) = r - new
      /\ Left(b, after, m, t, p) = r - s - (p.margin - b.position[m][t].margin)
    BY DEF PoolSurplus, Left
<1> HIDE DEF old, new, s, r
<1>6. QED
    BY <1>1, <1>3, <1>4, <1>5

\* What the fills of both sides of a trade do to a book.
PairDone(b, after, m, t, u, p, q, price) ==
    /\ Sound(after)
    /\ after.position = [[b.position EXCEPT ![m][t] = p] EXCEPT ![m][u] = q]
    /\ b.position[m][t].size = 0 => p.entry_price = price
    /\ b.position[m][u].size = 0 => q.entry_price = price
    /\ TotalBalance(after.ledger) = TotalBalance(b.ledger)
    /\ TotalCollateral(after.ledger) = TotalCollateral(b.ledger)
    /\ \A a \in Accounts \ {t, u, Pool} : Spendable(after.ledger, a) = Spendable(b.ledger, a)
    /\ PoolSurplus(after.ledger, after.position) - PoolSurplus(b.ledger, b.position)
           <= LeftBehind(b.position[m][t], p, price) + LeftBehind(b.position[m][u], q, price)

LEMMA PairStep ==
    ASSUME NEW b, Sound(b), vault_gate \in VaultGates, NEW op, NEW m \in Markets,
           NEW t \in Traders, NEW u \in Traders, t # u,
           NEW d1 \in Int, NEW d2 \in Int, NEW price \in U64,
           NEW half, half = Leg(b, m, t, d1, price),
           LegAllowed(b, op, m, t, d1, price), LegAllowed(half, op, m, u, d2, price)
    PROVE  \E p, q \in PositionRecord :
              /\ p.size = b.position[m][t].size + d1
              /\ q.size = b.position[m][u].size + d2
              /\ PairDone(b, Leg(half, m, u, d2, price), m, t, u, p, q, price)
<1> DEFINE after == Leg(half, m, u, d2, price)
<1>1. PICK p \in PositionRecord :
          /\ p.size = b.position[m][t].size + d1
          /\ b.position[m][t].size = 0 => p.entry_price = price
          /\ LegDone(b, half, m, t, p)
          /\ Left(b, half, m, t, p) <= LeftBehind(b.position[m][t], p, price)
    BY LegStep
<1>2. Sound(half) /\ half.position = [b.position EXCEPT ![m][t] = p]
    BY <1>1 DEF LegDone
<1>3. PICK q \in PositionRecord :
          /\ q.size = half.position[m][u].size + d2
          /\ half.position[m][u].size = 0 => q.entry_price = price
          /\ LegDone(half, after, m, u, q)
          /\ Left(half, after, m, u, q) <= LeftBehind(half.position[m][u], q, price)
    BY <1>2, LegStep
<1> HIDE DEF after
<1>4. half.position[m][u] = b.position[m][u]
    <2>1. b.position \in [Markets -> [Traders -> PositionRecord]]
        BY BookFacts
    <2>2. QED
        BY <1>2, <2>1
<1>5. PoolSurplus(after.ledger, after.position) - PoolSurplus(b.ledger, b.position)
          <= LeftBehind(b.position[m][t], p, price) + LeftBehind(b.position[m][u], q, price)
    <2> DEFINE s0 == PoolSurplus(b.ledger, b.position)
               s1 == PoolSurplus(half.ledger, half.position)
               s2 == PoolSurplus(after.ledger, after.position)
               l1 == LeftBehind(b.position[m][t], p, price)
               l2 == LeftBehind(b.position[m][u], q, price)
    <2>1. s1 - s0 <= l1 /\ s0 \in Int /\ s1 \in Int
        BY <1>1, SurplusOfFill
    <2>2. s2 - s1 <= l2 /\ s2 \in Int
        BY <1>2, <1>3, <1>4, SurplusOfFill
    <2>3. l1 \in Nat /\ l2 \in Nat
        <3>1. price \in Nat /\ b.position[m][t] \in PositionRecord
              /\ b.position[m][u] \in PositionRecord
            BY BookFacts
        <3>2. QED
            BY <3>1, LeftBehindType
    <2> HIDE DEF s0, s1, s2, l1, l2
    <2>4. s2 - s0 <= l1 + l2
        BY <2>1, <2>2, <2>3
    <2>5. QED
        BY <2>4 DEF s0, s2, l1, l2
<1>6. PairDone(b, after, m, t, u, p, q, price)
    <2>1. /\ Sound(after)
          /\ after.position = [[b.position EXCEPT ![m][t] = p] EXCEPT ![m][u] = q]
          /\ TotalBalance(after.ledger) = TotalBalance(b.ledger)
          /\ TotalCollateral(after.ledger) = TotalCollateral(b.ledger)
          /\ \A a \in Accounts \ {t, u, Pool} : Spendable(after.ledger, a) = Spendable(b.ledger, a)
        BY <1>1, <1>2, <1>3 DEF LegDone
    <2>2. /\ b.position[m][t].size = 0 => p.entry_price = price
          /\ b.position[m][u].size = 0 => q.entry_price = price
        BY <1>1, <1>3, <1>4
    <2>3. QED
        BY <1>5, <2>1, <2>2 DEF PairDone
<1>7. QED
    BY <1>1, <1>3, <1>4, <1>6 DEF after

--------------------------------------------------------------------------------
(* The risk controls: the liquidator and auto_deleveraging *)

LEMMA ShareType ==
    ASSUME NEW bps \in Nat, NEW amount \in Nat
    PROVE  Share(bps, amount) \in Nat
<1> DEFINE x == amount * bps
<1>1. x \in Nat
    OBVIOUS
<1> HIDE DEF x
<1>2. x \div BPS \in Nat
    BY <1>1, EngineAssumption, DivFacts
<1>3. QED
    BY <1>2 DEF Share, x

\* Both programs may be deployed on an engine that already has positions.
RiskOnAnyEngine == IInv /\ LiquidatorInit /\ AdlInit /\ [][RiskNext]_all_vars

\* The inductive invariant.  A keeper's count is bounded by the total, so the
\* total reaches its width first.
KeepersCounted == \A k \in Keepers : keeper_liquidations[k] <= total_liquidations
RInv == IInv /\ LiquidatorTypeOK /\ AdlTypeOK /\ KeepersCounted

\* What every step of the three programs keeps.
RiskStepKeeps == RInv' /\ LedgerKept

LEMMA RiskConstants ==
    /\ SizeDeltas \subseteq Int /\ Prices \subseteq U64 /\ U64 \subseteq Nat /\ I64 \subseteq Int
    /\ MaxLiquidations \in Nat /\ MaxAdlEvents \in Nat
    /\ BadDebts \subseteq U64 /\ ReduceSizes \subseteq U64 /\ AdlThresholds \subseteq U64
    /\ AdlCooldowns \subseteq Nat
    /\ LongestCooldown \in AdlCooldowns /\ LongestCooldown \in Nat
<1>1. LongestCooldown \in AdlCooldowns
    BY AdlAssumption DEF LongestCooldown
<1>2. QED
    BY <1>1, EngineAssumption, LedgerAssumption, LiquidatorAssumption, AdlAssumption
       DEF U64, I64, MaxI64

\* A step that leaves the ledger alone keeps its totals.
LEMMA SameLedger ==
    ASSUME IInv, ledger' = ledger
    PROVE  LedgerKept
BY DEF LedgerKept, IInv, TypeOK

LEMMA SameEngine ==
    ASSUME IInv, UNCHANGED vars
    PROVE  IInv' /\ LedgerKept
<1>1. IInv'
    BY NextIInv
<1>2. LedgerKept
    BY SameLedger DEF vars
<1>3. QED
    BY <1>1, <1>2

--------------------------------------------------------------------------------
(* The steps *)

LEMMA FillKeeps ==
    ASSUME RInv, Fill \/ NewMark, UNCHANGED <<liquidator_vars, adl_vars>>
    PROVE  RiskStepKeeps
<1>0. IInv /\ SizeDeltas \subseteq Int /\ Prices \subseteq U64 /\ Prices \subseteq Nat
    BY RiskConstants DEF RInv
<1>1. ASSUME NEW m \in Markets, NEW t \in Traders, NEW fill_price \in Prices,
             NEW size_delta \in SizeDeltas,
             \/ OpenPosition(Settlement, m, t, size_delta, fill_price)
             \/ ReducePosition(Settlement, m, t, size_delta, fill_price)
      PROVE  IInv' /\ LedgerKept
    BY <1>0, <1>1, OpenPositionStep, ReducePositionStep
<1>2. ASSUME NEW m \in Markets, NEW t \in Traders, NEW fill_price \in Prices,
             ClosePosition(Settlement, m, t, fill_price)
      PROVE  IInv' /\ LedgerKept
    BY <1>0, <1>2, ClosePositionStep
<1>3. ASSUME NEW m \in Markets, NEW price \in Prices, UpdateMarkPrice(Settlement, m, price)
      PROVE  IInv' /\ LedgerKept
    <2>1. IInv'
        BY <1>0, <1>3, UpdateMarkPriceStep
    <2>2. ledger' = ledger
        BY <1>3 DEF UpdateMarkPrice
    <2>3. QED
        BY <1>0, <2>1, <2>2, SameLedger
<1>4. IInv' /\ LedgerKept
    BY <1>1, <1>2, <1>3 DEF Fill, NewMark
<1>5. LiquidatorTypeOK' /\ KeepersCounted' /\ AdlTypeOK'
    BY DEF RInv, LiquidatorTypeOK, KeepersCounted, AdlTypeOK, liquidator_vars, liquidator_roles,
           adl_vars, adl_roles, adl_switches, adl_record
<1>6. QED
    BY <1>4, <1>5 DEF RiskStepKeeps, RInv

LEMMA LiquidateKeeps ==
    ASSUME RInv, NEW keeper \in Keepers, NEW m \in Markets, NEW t \in Traders,
           NEW row \in Accounts, NEW insurance \in Accounts,
           Liquidate(keeper, m, t, row, insurance), UNCHANGED adl_vars
    PROVE  RiskStepKeeps
<1>1. /\ LiquidatePosition(LiquidatorAuthority, m, t, row, insurance)
      /\ total_liquidations < MaxLiquidations /\ keeper_liquidations[keeper] < MaxLiquidations
      /\ total_liquidations' = total_liquidations + 1
      /\ keeper_liquidations' = [keeper_liquidations EXCEPT ![keeper] = @ + 1]
      /\ UNCHANGED <<liquidator_owner, liquidator_pending_owner, liquidator_paused>>
    BY DEF Liquidate, KeeperMayLiquidate, liquidator_roles
<1>2. IInv' /\ LedgerKept
    BY <1>1, LiquidatePositionStep DEF RInv
<1>3. LiquidatorTypeOK' /\ KeepersCounted'
    BY <1>1, RiskConstants DEF RInv, LiquidatorTypeOK, KeepersCounted
<1>4. AdlTypeOK'
    BY DEF RInv, AdlTypeOK, adl_vars, adl_roles, adl_switches, adl_record
<1>5. QED
    BY <1>2, <1>3, <1>4 DEF RiskStepKeeps, RInv

LEMMA LiquidatorStepKeeps ==
    ASSUME RInv, LiquidatorStep, UNCHANGED adl_vars
    PROVE  RiskStepKeeps
<1>1. CASE \E keeper \in Keepers, m \in Markets, t \in Traders, row, insurance \in Accounts :
                Liquidate(keeper, m, t, row, insurance)
    BY <1>1, LiquidateKeeps
<1>2. ASSUME NEW key \in Keys,
             \/ PauseLiquidator(key) \/ UnpauseLiquidator(key)
             \/ \E new_owner \in Keys : TransferLiquidator(key, new_owner)
             \/ AcceptLiquidator(key)
      PROVE  RiskStepKeeps
    <2>1. UNCHANGED vars
        BY <1>2 DEF PauseLiquidator, UnpauseLiquidator, TransferLiquidator, AcceptLiquidator
    <2>2. IInv' /\ LedgerKept
        BY <2>1, SameEngine DEF RInv
    <2>3. /\ liquidator_owner' \in Keys /\ liquidator_pending_owner' \in Keys \cup {NoKey}
          /\ liquidator_paused' \in BOOLEAN
          /\ total_liquidations' = total_liquidations
          /\ keeper_liquidations' = keeper_liquidations
        BY <1>2 DEF PauseLiquidator, UnpauseLiquidator, TransferLiquidator, AcceptLiquidator,
                    liquidator_roles, RInv, LiquidatorTypeOK
    <2>4. LiquidatorTypeOK' /\ KeepersCounted'
        BY <2>3 DEF RInv, LiquidatorTypeOK, KeepersCounted
    <2>5. AdlTypeOK'
        BY DEF RInv, AdlTypeOK, adl_vars, adl_roles, adl_switches, adl_record
    <2>6. QED
        BY <2>2, <2>4, <2>5 DEF RiskStepKeeps, RInv
<1>3. QED
    BY <1>1, <1>2 DEF LiquidatorStep

\* What the operator read, when it acts on it, and the instruction it sends.
LEMMA Submitted ==
    ASSUME RInv, NEW op \in AdlOperators, SubmitADL(op)
    PROVE  \E m \in Markets, t \in Traders, size \in Int,
              reduce_size \in ReduceSizes, price \in Prices, debt \in BadDebts, fund \in FundBalances :
              /\ m = sighting.market /\ t = sighting.trader /\ size = sighting.size
              /\ ExecuteADL(op, m, t, size, reduce_size, price, debt, fund)
<1>1. sighting \in [market : Markets, trader : Traders, size : I64]
    BY DEF SubmitADL, RInv, AdlTypeOK
<1>2. /\ sighting.market \in Markets /\ sighting.trader \in Traders /\ sighting.size \in Int
    BY <1>1, RiskConstants
<1>3. QED
    BY <1>2 DEF SubmitADL

LEMMA ReducingDeltaFacts ==
    ASSUME NEW size \in Int, NEW reduce_size \in Nat, size # 0
    PROVE  /\ ReducingDelta(size, reduce_size) \in Int
           /\ Abs(ReducingDelta(size, reduce_size)) <= Abs(size)
           /\ size > 0 => ReducingDelta(size, reduce_size) <= 0
           /\ size < 0 => ReducingDelta(size, reduce_size) >= 0
BY DEF ReducingDelta, AtMost, Abs

LEMMA AdlStepKeeps ==
    ASSUME RInv, AdlStep, UNCHANGED liquidator_vars
    PROVE  RiskStepKeeps
<1>1. LiquidatorTypeOK' /\ KeepersCounted'
    BY DEF RInv, LiquidatorTypeOK, KeepersCounted, liquidator_vars, liquidator_roles
<1>2. CASE \E op \in AdlOperators : SubmitADL(op)
    <2>1. PICK op \in AdlOperators : SubmitADL(op)
        BY <1>2
    <2>2. PICK m \in Markets, t \in Traders, size \in Int, reduce_size \in ReduceSizes,
               price \in Prices, debt \in BadDebts, fund \in FundBalances :
               ExecuteADL(op, m, t, size, reduce_size, price, debt, fund)
        BY <2>1, Submitted
    <2>3. /\ OpenPosition(AdlAuthority, m, t, ReducingDelta(size, reduce_size), price)
          /\ size # 0 /\ total_adl_events < MaxAdlEvents
          /\ total_bad_debt_covered + debt <= MaxU64
          /\ since_adl' = 0
          /\ total_adl_events' = total_adl_events + 1
          /\ total_bad_debt_covered' = total_bad_debt_covered + debt
          /\ UNCHANGED <<adl_roles, adl_switches>>
        BY <2>2 DEF ExecuteADL
    <2>4. ReducingDelta(size, reduce_size) \in Int /\ price \in Nat
        BY <2>3, RiskConstants, ReducingDeltaFacts
    <2>5. IInv' /\ LedgerKept
        BY <2>3, <2>4, OpenPositionStep DEF RInv
    <2>6. sighting' = Nothing
        BY <2>1 DEF SubmitADL
    <2>7. total_bad_debt_covered' \in U64 /\ total_adl_events' \in 0 .. MaxAdlEvents
        <3>1. /\ debt \in Nat /\ total_bad_debt_covered \in Nat /\ MaxU64 \in Nat
              /\ total_adl_events \in 0 .. MaxAdlEvents
            BY RiskConstants, LedgerAssumption DEF RInv, AdlTypeOK
        <3>2. QED
            BY <2>3, <3>1, RiskConstants DEF U64
    <2>8. since_adl' \in 0 .. LongestCooldown
        BY <2>3, RiskConstants
    <2>9. AdlTypeOK'
        BY <2>3, <2>6, <2>7, <2>8 DEF RInv, AdlTypeOK, adl_roles, adl_switches
    <2>10. QED
        BY <1>1, <2>5, <2>9 DEF RiskStepKeeps, RInv
<1>3. ASSUME NEW m \in Markets, NEW t \in Traders, Sight(m, t)
      PROVE  UNCHANGED vars /\ AdlTypeOK'
    <2>1. position[m][t].size \in I64
        BY StateFacts DEF RInv, PositionRecord
    <2>2. QED
        BY <1>3, <2>1 DEF Sight, RInv, AdlTypeOK, adl_roles, adl_switches, adl_record
<1>4. ASSUME AdlTick PROVE UNCHANGED vars /\ AdlTypeOK'
    <2>1. since_adl' \in 0 .. LongestCooldown
        BY <1>4, RiskConstants DEF AdlTick, AtMost, RInv, AdlTypeOK
    <2>2. QED
        BY <1>4, <2>1 DEF AdlTick, RInv, AdlTypeOK, adl_roles, adl_switches
<1>5. ASSUME AdlOwnerStep PROVE UNCHANGED vars /\ AdlTypeOK'
    <2>1. PICK key \in Keys :
            \/ \E op \in AdlOperators, status \in BOOLEAN : SetAdlOperator(key, op, status)
            \/ \E flag \in BOOLEAN : PauseAdl(key, flag) \/ SetAdlEnabled(key, flag)
            \/ \E threshold \in AdlThresholds, cooldown \in AdlCooldowns :
                  SetAdlParams(key, threshold, cooldown)
            \/ \E new_owner \in Keys : TransferAdl(key, new_owner)
            \/ AcceptAdl(key)
        BY <1>5 DEF AdlOwnerStep
    <2>2. CASE \E op \in AdlOperators, status \in BOOLEAN : SetAdlOperator(key, op, status)
        BY <2>2 DEF SetAdlOperator, RInv, AdlTypeOK, adl_switches, adl_record
    <2>3. CASE \E flag \in BOOLEAN : PauseAdl(key, flag) \/ SetAdlEnabled(key, flag)
        BY <2>3 DEF PauseAdl, SetAdlEnabled, RInv, AdlTypeOK, adl_roles, adl_record
    <2>4. CASE \E threshold \in AdlThresholds, cooldown \in AdlCooldowns :
                  SetAdlParams(key, threshold, cooldown)
        BY <2>4 DEF SetAdlParams, RInv, AdlTypeOK, adl_roles, adl_record
    <2>5. CASE \E new_owner \in Keys : TransferAdl(key, new_owner)
        BY <2>5 DEF TransferAdl, RInv, AdlTypeOK, adl_switches, adl_record
    <2>6. CASE AcceptAdl(key)
        BY <2>6 DEF AcceptAdl, RInv, AdlTypeOK, adl_switches, adl_record
    <2>7. QED
        BY <2>1, <2>2, <2>3, <2>4, <2>5, <2>6
<1>6. ASSUME UNCHANGED vars, AdlTypeOK' PROVE RiskStepKeeps
    BY <1>1, <1>6, SameEngine DEF RiskStepKeeps, RInv
<1>7. QED
    BY <1>2, <1>3, <1>4, <1>5, <1>6 DEF AdlStep

LEMMA RiskNextKeeps ==
    ASSUME RInv, [RiskNext]_all_vars
    PROVE  RiskStepKeeps
<1>1. CASE UNCHANGED all_vars
    <2>1. UNCHANGED vars /\ UNCHANGED liquidator_vars /\ UNCHANGED adl_vars
        BY <1>1 DEF all_vars
    <2>2. IInv' /\ LedgerKept
        BY <2>1, SameEngine DEF RInv
    <2>3. LiquidatorTypeOK' /\ KeepersCounted' /\ AdlTypeOK'
        BY <2>1 DEF RInv, LiquidatorTypeOK, KeepersCounted, AdlTypeOK, liquidator_vars,
                    liquidator_roles, adl_vars, adl_roles, adl_switches, adl_record
    <2>4. QED
        BY <2>2, <2>3 DEF RiskStepKeeps, RInv
<1>2. QED
    BY <1>1, FillKeeps, LiquidatorStepKeeps, AdlStepKeeps DEF RiskNext

LEMMA InitRInv == IInv /\ LiquidatorInit /\ AdlInit => RInv
<1> SUFFICES ASSUME IInv, LiquidatorInit, AdlInit PROVE RInv
    OBVIOUS
<1>1. LiquidatorTypeOK /\ KeepersCounted
    <2>1. liquidator_paused \in BOOLEAN
        BY Zenon DEF LiquidatorInit
    <2>2. /\ total_liquidations \in 0 .. MaxLiquidations
          /\ keeper_liquidations \in [Keepers -> 0 .. MaxLiquidations]
          /\ KeepersCounted
        BY RiskConstants DEF LiquidatorInit, KeepersCounted
    <2>3. QED
        BY <2>1, <2>2 DEF LiquidatorInit, LiquidatorTypeOK
<1>2. AdlTypeOK
    <2>1. 0 \in U64 /\ 0 \in 0 .. MaxAdlEvents /\ LongestCooldown \in 0 .. LongestCooldown
        BY RiskConstants, LedgerAssumption DEF U64
    <2>2. QED
        BY <2>1 DEF AdlInit, AdlTypeOK
<1>3. QED
    BY <1>1, <1>2 DEF RInv

LEMMA RiskInvariance == RiskOnAnyEngine => []RInv
<1>1. RInv /\ [RiskNext]_all_vars => RInv'
    BY RiskNextKeeps DEF RiskStepKeeps
<1>2. QED
    BY <1>1, InitRInv, PTL DEF RiskOnAnyEngine

--------------------------------------------------------------------------------
(* A deleveraging on a fresh reading only shrinks the position *)

\* A smaller size at the same price needs no more margin.
LEMMA SmallerNeedsLess ==
    ASSUME NEW bps \in Nat, NEW price \in Nat, NEW x \in Nat, NEW y \in Nat, x <= y
    PROVE  RequiredMargin(bps, x, price) <= RequiredMargin(bps, y, price)
<1> DEFINE p == x * price
           q == y * price
           k == Notional(x, price)
           n == Notional(y, price)
           u == k * bps
           v == n * bps
<1>1. p \in Nat /\ q \in Nat /\ p <= q
    <2>1. price * x <= price * y /\ price * x = x * price /\ price * y = y * price
        BY ProductMonotone
    <2>2. QED
        BY <2>1
<1> HIDE DEF p, q
<1>2. k <= n
    <2>1. p \div SIZE_PRECISION <= q \div SIZE_PRECISION
        BY <1>1, EngineAssumption, DivMonotone
    <2>2. QED
        BY <2>1 DEF Notional, p, q
<1>3. k \in Nat /\ n \in Nat
    BY NotionalType
<1> HIDE DEF k, n
<1>4. u \in Nat /\ v \in Nat /\ u <= v
    <2>1. bps * k <= bps * n /\ bps * k = k * bps /\ bps * n = n * bps
        BY <1>2, <1>3, ProductMonotone
    <2>2. QED
        BY <1>3, <2>1
<1> HIDE DEF u, v
<1>5. u \div BPS <= v \div BPS
    BY <1>4, EngineAssumption, DivMonotone
<1>6. QED
    BY <1>5 DEF RequiredMargin, Share, u, v, k, n

\* Towards zero by at most all of it.
LEMMA ShrunkSize ==
    ASSUME NEW old \in Int, NEW seen \in Int, NEW delta \in Int,
           seen # 0, Sign(old) = Sign(seen), Abs(old) >= Abs(seen),
           delta # 0, Abs(delta) <= Abs(seen),
           seen > 0 => delta <= 0, seen < 0 => delta >= 0
    PROVE  /\ Abs(old + delta) < Abs(old) /\ Sign(old + delta) \in {0, Sign(old)}
           /\ old # 0
           /\ old + delta # 0 => Sign(old + delta) = Sign(old)
BY DEF Sign, Abs

\* A fill towards zero locks nothing: what the smaller position needs at its
\* unchanged entry it already has.
LEMMA ShrinkingIsFree ==
    ASSUME IInv, NEW op, NEW m \in Markets, NEW t \in Traders, NEW delta \in Int,
           NEW price \in U64, OpenPosition(op, m, t, delta, price),
           Abs(position[m][t].size + delta) < Abs(position[m][t].size),
           position[m][t].size + delta # 0 =>
               Sign(position[m][t].size + delta) = Sign(position[m][t].size)
    PROVE  /\ ledger' = ledger
           /\ position'[m][t].size = position[m][t].size + delta
<1> DEFINE pos == position[m][t]
           bps == market[m].initial_margin_bps
           new == pos.size + delta
           entry == EntryPrice(pos, new, price)
           required == RequiredMargin(bps, Abs(new), entry)
           additional == SatSub(required, pos.margin)
<1>1. /\ pos.size \in Int /\ pos.entry_price \in Nat /\ pos.margin \in Nat /\ bps \in Nat
      /\ new \in Int /\ price \in Nat /\ U64 \subseteq Nat
      /\ position \in [Markets -> [Traders -> PositionRecord]]
    BY StateFacts, RiskConstants DEF IInv, TypeOK, PositionRecord
<1>2. /\ entry \in U64 /\ required \in U64
      /\ ledger' = Paid(ledger, t, Pool, additional)
      /\ position' = [position EXCEPT ![m][t] =
             [size |-> new, entry_price |-> entry, margin |-> required]]
    BY DEF OpenPosition
<1>3. pos.margin = RequiredMargin(bps, Abs(pos.size), pos.entry_price)
    BY DEF IInv, MarginIsRequired
<1>4. required <= pos.margin
    <2>1. CASE new = 0
        <3>1. Abs(new) = 0 /\ entry \in Nat
            BY <1>1, <1>2, <2>1, Magnitude
        <3>2. required = 0
            BY <1>1, <3>1, NoMarginForNothing
        <3>3. QED
            BY <1>1, <3>2
    <2>2. CASE new # 0
        <3>1. entry = pos.entry_price
            <4>1. Abs(pos.size) \in Nat /\ Abs(new) \in Nat /\ Abs(0) = 0
                BY <1>1, Magnitude
            <4>2. pos.size # 0 /\ ~ (Abs(new) > Abs(pos.size)) /\ Sign(pos.size) = Sign(new)
                BY <2>2, <4>1
            <4>3. QED
                BY <4>2 DEF EntryPrice
        <3>2. RequiredMargin(bps, Abs(new), pos.entry_price)
                  <= RequiredMargin(bps, Abs(pos.size), pos.entry_price)
            <4>1. Abs(pos.size) \in Nat /\ Abs(new) \in Nat /\ Abs(new) <= Abs(pos.size)
                BY <1>1, Magnitude
            <4>2. QED
                BY <1>1, <4>1, SmallerNeedsLess
        <3>3. QED
            BY <1>3, <3>1, <3>2
    <2>3. QED
        BY <2>1, <2>2
<1>5. position'[m][t].size = new
    BY <1>1, <1>2
<1> HIDE DEF required
<1>6. additional = 0
    BY <1>1, <1>2, <1>4 DEF SatSub
<1>7. ledger' = ledger
    BY <1>2, <1>6 DEF Paid
<1>8. QED
    BY <1>5, <1>7

LEMMA OpeningsMove ==
    ASSUME NEW op, NEW m, NEW t, NEW delta, NEW price, OpenPosition(op, m, t, delta, price)
    PROVE  delta # 0
BY DEF OpenPosition

\* Only a submission deleverages.
LEMMA OnlySubmissionsDeleverage ==
    ASSUME RInv, [RiskNext]_all_vars, Deleverages
    PROVE  \E op \in AdlOperators : SubmitADL(op)
<1>1. ~ UNCHANGED adl_vars
    BY DEF Deleverages, adl_vars, adl_record
<1>2. AdlStep
    BY <1>1 DEF RiskNext, all_vars
<1>3. QED
    BY <1>2 DEF AdlStep, Deleverages, Sight, AdlTick, AdlOwnerStep, SetAdlOperator, PauseAdl,
                SetAdlEnabled, SetAdlParams, TransferAdl, AcceptAdl, adl_record

\* As long as the position still has the sign and at least the size the
\* operator read, execute_adl only shrinks it and never touches its trader's
\* row: for every reading, amount, price and margin parameter, between any
\* fills, liquidations and price moves.
THEOREM FreshReadingsReduce == RiskOnAnyEngine => FreshReduces
<1> DEFINE Shrinks ==
        Deleverages =>
            LET m == sighting.market
                t == sighting.trader
                old == position[m][t].size
                new == position'[m][t].size
            IN  Sign(old) = Sign(sighting.size) /\ Abs(old) >= Abs(sighting.size)
                => /\ Abs(new) < Abs(old) /\ Sign(new) \in {0, Sign(old)}
                   /\ ledger' = ledger
<1>1. ASSUME RInv, [RiskNext]_all_vars PROVE Shrinks
    <2> DEFINE m == sighting.market
               t == sighting.trader
               seen == sighting.size
               old == position[m][t].size
    <2> SUFFICES ASSUME Deleverages, Sign(old) = Sign(seen), Abs(old) >= Abs(seen)
                 PROVE  /\ Abs(position'[m][t].size) < Abs(old)
                        /\ Sign(position'[m][t].size) \in {0, Sign(old)}
                        /\ ledger' = ledger
        OBVIOUS
    <2>1. PICK op \in AdlOperators : SubmitADL(op)
        BY <1>1, OnlySubmissionsDeleverage
    <2>2. PICK reduce_size \in ReduceSizes, price \in Prices, debt \in BadDebts,
               fund \in FundBalances :
               /\ m \in Markets /\ t \in Traders /\ seen \in Int
               /\ ExecuteADL(op, m, t, seen, reduce_size, price, debt, fund)
        BY <1>1, <2>1, Submitted
    <2> DEFINE delta == ReducingDelta(seen, reduce_size)
    <2>3. /\ OpenPosition(AdlAuthority, m, t, delta, price) /\ seen # 0 /\ delta # 0
          /\ m \in Markets /\ t \in Traders /\ seen \in Int
        <3>1. OpenPosition(AdlAuthority, m, t, delta, price) /\ seen # 0
            BY <2>2 DEF ExecuteADL
        <3>2. delta # 0
            BY <3>1, OpeningsMove
        <3>3. QED
            BY <2>2, <3>1, <3>2
    <2>4. /\ delta \in Int /\ Abs(delta) <= Abs(seen) /\ price \in U64
          /\ seen > 0 => delta <= 0
          /\ seen < 0 => delta >= 0
        BY <2>3, RiskConstants, ReducingDeltaFacts
    <2> HIDE DEF delta
    <2>5. old \in Int /\ IInv
        BY <1>1, <2>3, StateFacts DEF RInv
    <2> HIDE DEF old, m, t, seen
    <2>6. /\ Abs(old + delta) < Abs(old) /\ Sign(old + delta) \in {0, Sign(old)}
          /\ old + delta # 0 => Sign(old + delta) = Sign(old)
        BY <2>3, <2>4, <2>5, ShrunkSize
    <2>7. ledger' = ledger /\ position'[m][t].size = old + delta
        BY <2>3, <2>4, <2>5, <2>6, ShrinkingIsFree DEF old
    <2>8. QED
        BY <2>6, <2>7
<1>2. RInv /\ [RiskNext]_all_vars => [Shrinks]_<<vars, adl_vars>>
    BY <1>1
<1>3. QED
    BY <1>2, RiskInvariance, PTL DEF RiskOnAnyEngine, FreshReduces

--------------------------------------------------------------------------------
(* Nothing but the named funds stands in the way of a liquidation *)

\* One margin is at most all of them.
LEMMA MarginInTotal ==
    ASSUME NEW pos \in PositionTables, NEW m \in Markets, NEW t \in Traders
    PROVE  pos[m][t].margin <= TotalMargin(pos)
<1> DEFINE row(n) == [u \in Traders |-> pos[n][u].margin]
           f == [n \in Markets |-> SumTo(row(n), NumTraders)]
<1>1. /\ NumMarkets \in Nat /\ NumTraders \in Nat
      /\ Markets = 1 .. NumMarkets /\ Traders = 1 .. NumTraders
    BY EngineAssumption DEF Markets, Traders
<1>2. ASSUME NEW n \in Markets
      PROVE  /\ SumTo(row(n), NumTraders) \in Nat
             /\ pos[n][t].margin \in Nat
             /\ pos[n][t].margin <= SumTo(row(n), NumTraders)
    <2> DEFINE r == row(n)
    <2>1. \A u \in Traders : pos[n][u].margin \in Nat
        BY RiskConstants DEF PositionTables, PositionRecord
    <2>2. r \in [1 .. NumTraders -> Nat] /\ r[t] = pos[n][t].margin /\ r[t] \in Nat
        BY <1>1, <2>1
    <2> HIDE DEF r
    <2>3. SumTo(r, NumTraders) \in Nat /\ r[t] <= SumTo(r, NumTraders)
        BY <1>1, <2>2, SumBound
    <2>4. QED
        BY <2>2, <2>3 DEF r
<1>3. /\ f \in [1 .. NumMarkets -> Nat] /\ f[m] = SumTo(row(m), NumTraders)
      /\ TotalMargin(pos) = SumTo(f, NumMarkets)
    BY <1>1, <1>2 DEF TotalMargin
<1> HIDE DEF f
<1>4. f[m] <= SumTo(f, NumMarkets) /\ SumTo(f, NumMarkets) \in Nat /\ f[m] \in Nat
    BY <1>1, <1>3, SumBound
<1>5. pos[m][t].margin \in Nat /\ pos[m][t].margin <= f[m]
    BY <1>2, <1>3
<1>6. QED
    BY <1>3, <1>4, <1>5

\* The gate of a vault that serves the engine without a cap.
OpenGate == [paused |-> FALSE, max_per_tx |-> 0, engine_authorized |-> TRUE]

LEMMA PayableFromRow ==
    ASSUME NEW led \in Ledgers, NEW from \in Accounts, NEW to \in Accounts, from # to,
           NEW amount \in Nat, amount <= Spendable(led, from), Supply(led) <= MaxU64,
           vault_gate = OpenGate, vault_gate \in VaultGates
    PROVE  /\ CanPay(led, from, to, amount) /\ amount \in U64
           /\ Paid(led, from, to, amount) \in Ledgers
           /\ Supply(Paid(led, from, to, amount)) = Supply(led)
           /\ Spendable(Paid(led, from, to, amount), from) = Spendable(led, from) - amount
<1>1. amount > 0 => TransferAllowed(led, from, to, amount, vault_gate.max_per_tx)
    BY WhateverIsThere DEF OpenGate
<1>2. CanPay(led, from, to, amount)
    BY <1>1 DEF CanPay, OpenGate
<1>3. amount \in U64
    <2>1. CASE amount = 0
        BY <2>1, LedgerAssumption DEF U64
    <2>2. CASE amount > 0
        <3>1. amount <= MaxU64
            <4>1. Spendable(led, from) \in Nat /\ Spendable(led, from) <= MaxU64 /\ MaxU64 \in Nat
                BY <1>1, <2>2, LedgerAssumption DEF TransferAllowed, Spendable, Ledgers, U64
            <4>2. QED
                BY <4>1
        <3>2. QED
            BY <3>1, LedgerAssumption DEF U64
    <2>3. QED
        BY <2>1, <2>2
<1>4. QED
    BY <1>2, <1>3, PaidFacts DEF Supply

\* A loss the engine can compute: closing a position at the mark price loses
\* no more than an i64 holds.
LossesFit ==
    \A m \in Markets, t \in Traders :
        Pnl(position[m][t].size, position[m][t].entry_price, market[m].mark_price) >= -MaxI64 - 1

\* What a losing position leaves, and how it is divided.
LEMMA LossDivided ==
    ASSUME IInv, LossesFit, NEW m \in Markets, NEW t \in Traders,
           position[m][t].size # 0, Liquidatable(market[m], position[m][t]),
           2 * market[m].maintenance_margin_bps <= BPS
    PROVE  LET mkt == market[m]
               pos == position[m][t]
               left == LeftAtMark(mkt, pos)
               reward == KeeperReward(mkt, pos)
           IN  /\ Pnl(pos.size, pos.entry_price, mkt.mark_price) \in I64
               /\ left \in Int /\ left <= pos.margin
               /\ KeeperBounty(mkt, pos) \in Nat
               /\ left > 0 => /\ reward \in Nat /\ left - reward \in Nat
<1> DEFINE mkt == market[m]
           pos == position[m][t]
           pnl == Pnl(pos.size, pos.entry_price, mkt.mark_price)
           notional == NotionalAtMark(mkt, pos)
           left == LeftAtMark(mkt, pos)
           reward == KeeperReward(mkt, pos)
           share == Share(KEEPER_REWARD_CAP_BPS, notional)
<1>1. /\ pos.size \in Int /\ pos.entry_price \in Nat /\ pos.margin \in Nat
      /\ mkt.mark_price \in Nat
    BY StateFacts
<1>2. pnl \in Int /\ pnl <= 0 /\ pnl >= -MaxI64 - 1
    <2>1. pnl \in Int
        BY <1>1, PnlType
    <2>2. pnl <= 0
        BY InvariantOnlyLosers DEF OnlyLosersLiquidatable
    <2>3. QED
        BY <2>1, <2>2 DEF LossesFit
<1>3. pnl \in I64
    <2>1. MaxI64 \in Nat
        BY LedgerAssumption DEF MaxI64
    <2>2. QED
        BY <1>2, <2>1 DEF I64
<1>4. left = pos.margin + pnl
    BY DEF LeftAtMark
<1> HIDE DEF pnl
<1>5. notional \in Nat
    BY <1>1, Magnitude, NotionalType DEF NotionalAtMark
<1>6. /\ KeeperBounty(mkt, pos) = Share(KEEPER_REWARD_BAD_DEBT_BPS, notional)
      /\ reward = AtMost(left \div 2, share)
    BY DEF KeeperBounty, KeeperReward
<1> HIDE DEF notional, left, reward
<1>7. share \in Nat /\ KeeperBounty(mkt, pos) \in Nat
    BY <1>5, <1>6, EngineAssumption, ShareType
<1> HIDE DEF share
<1>8. left \in Int /\ left <= pos.margin
    BY <1>1, <1>2, <1>4
<1>9. left > 0 => reward \in Nat /\ left - reward \in Nat
    <2>1. left > 0 => left \div 2 \in Nat /\ left \div 2 <= left
        BY <1>8
    <2>2. QED
        BY <1>6, <1>7, <1>8, <2>1 DEF AtMost
<1>10. QED
    BY <1>3, <1>7, <1>8, <1>9 DEF pnl, left, reward

\* The four ways an instruction of the liquidator can fail are excluded one by
\* one: the engine's own checks by its books, the widths by the loss and the
\* supply, the payments by the funds named, the counters by the total.
LEMMA LiquidationGoesThrough ==
    ASSUME RInv, LossesFit, Supply(ledger) <= MaxU64
    PROVE  CanAlwaysLiquidate
<1> SUFFICES ASSUME NEW m \in Markets, NEW t \in Traders, NEW keeper \in Keepers,
                    NEW row \in Accounts \ {Pool, Insurance},
                    position[m][t].size # 0, Liquidatable(market[m], position[m][t]),
                    market[m].mark_price > 0,
                    ~ paused, ~ liquidator_paused, LiquidatorAuthority \in operators,
                    PoolIsSet, insurance_fund_balance = Insurance,
                    vault_gate = OpenGate,
                    Spendable(ledger, Pool) >= TotalMargin(position),
                    Spendable(ledger, Insurance) >= KeeperBounty(market[m], position[m][t]),
                    total_liquidations < MaxLiquidations,
                    2 * market[m].maintenance_margin_bps <= BPS
             PROVE  KeeperMayLiquidate(keeper, m, t, row, Insurance)
    BY Zenon DEF CanAlwaysLiquidate, OpenGate
<1> DEFINE mkt == market[m]
           pos == position[m][t]
           left == LeftAtMark(mkt, pos)
           reward == KeeperReward(mkt, pos)
           bounty == KeeperBounty(mkt, pos)
<1>1. IInv
    BY DEF RInv
<1>2. /\ ledger \in Ledgers /\ vault_gate \in VaultGates
      /\ Pool \in Accounts /\ Insurance \in Accounts /\ Pool # Insurance
      /\ pos.margin \in Nat /\ row \in Accounts /\ row # Pool /\ row # Insurance
    BY <1>1, StateFacts
<1>3. mkt.active
    BY <1>1 DEF IInv, PositionsListed
<1>4. /\ Pnl(pos.size, pos.entry_price, mkt.mark_price) \in I64
      /\ left \in Int /\ left <= pos.margin /\ bounty \in Nat
      /\ left > 0 => reward \in Nat /\ left - reward \in Nat
    BY <1>1, LossDivided
<1>5. pos.margin <= Spendable(ledger, Pool)
    <2>1. position \in PositionTables
        BY <1>1 DEF IInv, TypeOK, PositionTables, PositionRecord
    <2>2. pos.margin <= TotalMargin(position) /\ TotalMargin(position) \in Int
        BY <2>1, MarginInTotal, MarginsType
    <2>3. Spendable(ledger, Pool) \in Nat
        BY <1>2, LedgerAssumption DEF Spendable, Ledgers, U64
    <2>4. QED
        BY <1>2, <2>2, <2>3
<1>6. Spendable(ledger, Pool) \in Nat /\ Spendable(ledger, Insurance) \in Nat
    BY <1>2, LedgerAssumption DEF Spendable, Ledgers, U64
<1> HIDE DEF left, reward, bounty
<1>7. left <= 0 => bounty \in U64 /\ CanPay(ledger, Insurance, row, bounty)
    BY <1>2, <1>4, <1>6, PayableFromRow DEF bounty
<1>8. ASSUME left > 0
      PROVE  {reward, left - reward} \subseteq U64
             /\ CanPayTwice(Pool, row, reward, Pool, Insurance, left - reward)
    <2> DEFINE once == Paid(ledger, Pool, row, reward)
               rest == left - reward
    <2>1. /\ reward \in Nat /\ rest \in Nat
          /\ reward <= Spendable(ledger, Pool)
          /\ rest <= Spendable(ledger, Pool) - reward
        BY <1>2, <1>4, <1>5, <1>6, <1>8
    <2> HIDE DEF rest
    <2>2. /\ CanPay(ledger, Pool, row, reward) /\ reward \in U64
          /\ once \in Ledgers /\ Supply(once) = Supply(ledger)
          /\ Spendable(once, Pool) = Spendable(ledger, Pool) - reward
        BY <1>2, <2>1, PayableFromRow
    <2> HIDE DEF once
    <2>3. CanPay(once, Pool, Insurance, rest) /\ rest \in U64
        BY <1>2, <2>1, <2>2, PayableFromRow
    <2>4. QED
        BY <2>2, <2>3 DEF CanPayTwice, once, rest
<1>9. keeper_liquidations[keeper] < MaxLiquidations
    <2>1. /\ keeper_liquidations[keeper] \in Nat /\ total_liquidations \in Nat
          /\ keeper_liquidations[keeper] <= total_liquidations
        BY DEF RInv, LiquidatorTypeOK, KeepersCounted
    <2>2. QED
        BY <2>1, RiskConstants
<1>10. LiquidationAllowed(LiquidatorAuthority, m, t, row, Insurance)
    <2>1. IF left <= 0
          THEN bounty \in U64 /\ CanPay(ledger, Insurance, row, bounty)
          ELSE /\ {reward, left - reward} \subseteq U64
               /\ CanPayTwice(Pool, row, reward, Pool, Insurance, left - reward)
        BY <1>4, <1>7, <1>8
    <2>2. QED
        BY <1>3, <1>4, <2>1 DEF LiquidationAllowed, left, reward, bounty
<1>11. QED
    BY <1>9, <1>10 DEF KeeperMayLiquidate

\* Engine, liquidator and auto_deleveraging stay typed and no counter of
\* theirs leaves its width.
THEOREM RiskControlsTyped == RiskOnAnyEngine => []RiskTypeOK
<1>1. RInv => RiskTypeOK
    BY DEF RInv, IInv, RiskTypeOK
<1>2. QED
    BY <1>1, RiskInvariance, PTL

\* As long as the supply fits a row and no loss exceeds what the engine can
\* compute, a position under its maintenance margin can be liquidated by any
\* keeper, new or not, whenever the funds named in CanAlwaysLiquidate are
\* there: no check, width, cap or counter of liquidator, engine or vault is in
\* the way.
THEOREM LiquidationAlwaysOpen ==
    RiskOnAnyEngine /\ Supply(ledger) <= MaxU64 => [](LossesFit => RiskInv)
<1>1. RInv /\ Supply(ledger) <= MaxU64 => (LossesFit => RiskInv)
    BY LiquidationGoesThrough DEF RiskInv, RiskTypeOK, RInv, IInv
<1>2. RInv /\ Supply(ledger) <= MaxU64 /\ [RiskNext]_all_vars => (Supply(ledger) <= MaxU64)'
    <2> SUFFICES ASSUME RInv, Supply(ledger) <= MaxU64, [RiskNext]_all_vars
                 PROVE  Supply(ledger') <= MaxU64
        OBVIOUS
    <2>1. LedgerKept
        BY RiskNextKeeps DEF RiskStepKeeps
    <2>2. QED
        BY <2>1 DEF LedgerKept, Supply
<1>3. QED
    BY <1>1, <1>2, RiskInvariance, PTL DEF RiskOnAnyEngine

\* The same for the deployment the run starts from.
THEOREM DeployedRiskControls ==
    RiskSpec => /\ []RiskTypeOK /\ FreshReduces
                /\ Supply(ledger) <= MaxU64 => [](LossesFit => RiskInv)
<1>1. RiskInit => IInv /\ LiquidatorInit /\ AdlInit
    BY DeployedIInv DEF RiskInit
<1>2. RiskSpec => RiskOnAnyEngine
    BY <1>1, PTL DEF RiskSpec, RiskOnAnyEngine
<1>3. QED
    BY <1>2, RiskControlsTyped, FreshReadingsReduce, LiquidationAlwaysOpen

================================================================================
