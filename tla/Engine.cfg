\* Two traders, one market, one key that owns and operates the engine:
\* opens, increases, flips, reductions, closes and liquidations at two
\* prices, with margins that round.
CONSTANTS
    NumMarkets = 1
    NumTraders = 2
    NumAccounts = 4
    Pool = 3
    Insurance = 4
    NoAccount = NoAccount
    Keys = {k1}
    NoKey = NoKey
    MaxU64 = 40
    SIZE_PRECISION = 1
    BPS = 4
    KEEPER_REWARD_BAD_DEBT_BPS = 1
    KEEPER_REWARD_CAP_BPS = 2
    InitialMargin = 3
    MaintenanceMargin = 2
    MaxSize = 2
    MarketParams <- MCParams
    SizeDeltas <- MCDeltas
    Prices = {2, 4}
    VaultGates <- OpenOrPaused
    Transfers = {3}
    PoolFunding = {2}
    MaxFunds = 9
    TraderFunds = 3
    TraderCredit = 0
    PoolFunds = 1
    InsuranceFunds = 1
    InitialLedger <- MCLedger
SPECIFICATION EngineSpec
INVARIANTS EngineInv OpenInterestExact SafeAtEntry OnlyLosersLiquidatable
PROPERTIES LimitedLiability PoolPaysOnlyProfits
