\* Two depositors and a manager over two units of time, one listed market at
\* two prices and one that may be listed.
CONSTANTS
    NumMarkets = 2
    NumTraders = 1
    NumAccounts = 6
    Pool = 5
    Insurance = 6
    NoAccount = NoAccount
    tv = tv
    Keys = {tv}
    NoKey = NoKey
    MaxU64 = 40
    SIZE_PRECISION = 1
    BPS = 4
    KEEPER_REWARD_BAD_DEBT_BPS = 0
    KEEPER_REWARD_CAP_BPS = 1
    InitialMargin = 2
    MaintenanceMargin = 1
    MaxSize = 1
    MarketParams <- MCParams
    SizeDeltas <- LongOrFlip
    Prices = {2, 4}
    VaultGates <- OneGate
    Transfers = {}
    PoolFunding = {}
    MaxFunds = 0
    TraderFunds = 0
    TraderCredit = 0
    PoolFunds = 1
    InsuranceFunds = 0
    DepositorFunds = 2
    InitialLedger <- VaultLedgers
    VaultRow = 1
    Depositors = {2, 3}
    Managers = {4}
    VaultOwners = {o1}
    VaultTerms <- GoodAndBad
    PRICE_PRECISION = 4
    SHARE_PER_PRICE = 1
    SECONDS_PER_YEAR = 1
    MIN_FIRST_DEPOSIT = 2
    MAX_VAULT_MARKETS = 1
    MAX_PERFORMANCE_FEE_BPS = 2
    MAX_MANAGEMENT_FEE_BPS = 1
    MAX_DRAWDOWN_BPS = 3
    DEFAULT_DRAWDOWN_COOLDOWN_SECS = 1
    Amounts = {2}
    Redemptions = {1, 2}
    Cooldowns = {1}
    Caps = {0}
    LastTime = 2
    MaxChanges = 1
SPECIFICATION LowSpec
  
PROPERTIES  ChargedOnNewHighs CooldownHeld
