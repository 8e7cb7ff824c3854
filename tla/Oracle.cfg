\* Two feeds under one breaker, one key that owns and operates, three prices
\* of which neighbours are within one limit and all within the other; feeds
\* with and without checks, quotes that are stale, early, wide, deviating or
\* zero, and settings inside and outside their bounds.
CONSTANTS
    btc = btc
    sol = sol
    btc_market = btc_market
    sol_market = sol_market
    alice = alice
    bob = bob
    Feeds = {btc, sol}
    Markets = {btc_market, sol_market}
    Routing <- OwnMarket
    Keys = {alice}
    NoKey = NoKey
    MIN_COOLDOWN = 1
    MAX_COOLDOWN = 3
    MIN_CHANGE = 100
    MAX_CHANGE = 10000
    BPS = 10000
    PYTH = 0
    DUAL = 2
    MAX_COUNT = 3
    RequiredGood = 2
    Cooldowns = {0, 1, 3, 4}
    Changes = {50, 2000, 4000}
    FeedParams <- CheckedFeeds
    Marks = {0, 10, 12, 14}
    Quotes <- MixedQuotes
    Unlisted = Unlisted
SPECIFICATION Spec
INVARIANTS OracleInv
PROPERTIES GentleMoves QuietAfterJump
