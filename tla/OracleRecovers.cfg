\* Two feeds whose true prices move among three values, neighbours within
\* the breaker's limit.
CONSTANTS
    btc = btc
    sol = sol
    btc_market = btc_market
    sol_market = sol_market
    alice = alice
    Feeds = {btc, sol}
    Markets = {btc_market, sol_market}
    Routing <- OwnMarket
    Keys = {alice}
    NoKey = NoKey
    MIN_COOLDOWN = 1
    MAX_COOLDOWN = 2
    MIN_CHANGE = 100
    MAX_CHANGE = 10000
    BPS = 10000
    PYTH = 0
    DUAL = 2
    MAX_COUNT = 2
    RequiredGood = 2
    Cooldowns = {1, 2}
    Changes = {2000}
    FeedParams = {}
    Quotes = {}
    Unlisted = Unlisted
    Operator = alice
    WorldPrices = {10, 12, 14}
    Settings <- Unchecked
SPECIFICATION KeeperSpec
PROPERTIES Recovers
