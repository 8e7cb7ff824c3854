\* Two traders, five signed orders, one market; fees and the delay change
\* between commit and settlement, and positions are liquidated in between.
CONSTANTS
    NumMarkets = 1
    NumTraders = 2
    NumAccounts = 5
    Pool = 3
    Insurance = 4
    NoAccount = NoAccount
    os = os
    Keys = {os}
    NoKey = NoKey
    MaxU64 = 40
    SIZE_PRECISION = 1
    BPS = 4
    KEEPER_REWARD_BAD_DEBT_BPS = 1
    KEEPER_REWARD_CAP_BPS = 2
    InitialMargin = 2
    MaintenanceMargin = 1
    MaxSize = 1
    MarketParams <- MCParams
    SizeDeltas <- MCDeltas
    Prices = {2, 4}
    VaultGates <- OneGate
    Transfers = {}
    PoolFunding = {}
    MaxFunds = 0
    TraderFunds = 6
    TraderCredit = 0
    PoolFunds = 3
    InsuranceFunds = 1
    InitialLedger <- MCLedger
    SignedOrders <- TwoTraders
    Relayers = {r1}
    PageBits = 2
    MAX_FEE_BPS = 1
    MAX_DELAY_SECS = 3
    DefaultFees <- NoFees
    DefaultDelays <- TwoTicks
    DefaultTiers <- TopTier
    FeeChoices <- SmallFees
    DelayChoices <- SmallDelays
    TierChoices <- SmallTiers
    FeeRecipients = {5}
    LastTime = 3
    MaxCommits = 2
    MaxChanges = 1
SPECIFICATION SettlementSpec
INVARIANTS SettlementInv
PROPERTIES TradesMatch NothingStranded  CommitsBind
