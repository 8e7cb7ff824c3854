\* One trader, two prices, sizes up to two; a position of two can lose more
\* than its margin.  A keeper and an ADL operator with one reading at a time.
CONSTANTS
    NumMarkets = 1
    NumTraders = 1
    NumAccounts = 4
    Pool = 2
    Insurance = 3
    NoAccount = NoAccount
    Keys = {settlement}
    NoKey = NoKey
    MaxU64 = 16
    SIZE_PRECISION = 1
    BPS = 8
    KEEPER_REWARD_BAD_DEBT_BPS = 1
    KEEPER_REWARD_CAP_BPS = 4
    InitialMargin = 6
    MaintenanceMargin = 4
    MaxSize = 2
    MarketParams <- MCParams
    SizeDeltas <- MCDeltas
    Prices = {2, 4}
    VaultGates <- OneGate
    Transfers = {}
    PoolFunding = {}
    MaxFunds = 0
    TraderFunds = 3
    PoolFunds = 0
    InsuranceFunds = 1
    InitialLedger <- MCLedger
    LiquidatorAuthority = settlement
    AdlAuthority = settlement
    Settlement = settlement
    Keepers = {keeper}
    MaxLiquidations = 1
    AdlOperators = {adl_operator}
    MaxAdlEvents = 1
    AdlThresholds = {1}
    AdlCooldowns = {1}
    BadDebts = {0, 1}
    FundBalances = {0}
    ReduceSizes = {1, 3}
    Nothing = Nothing
SPECIFICATION RiskSpec
 
PROPERTIES FreshReduces
