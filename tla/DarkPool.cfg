\* Two agents, two intents, two responses, one market; the fee changes between
\* post and settlement, marks age, positions are liquidated in between.
CONSTANTS
    NumMarkets = 1
    NumTraders = 2
    NumAccounts = 5
    Pool = 3
    Insurance = 4
    NoAccount = NoAccount
    dp = dp
    Keys = {dp}
    NoKey = NoKey
    MaxU64 = 40
    SIZE_PRECISION = 1
    BPS = 4
    KEEPER_REWARD_BAD_DEBT_BPS = 1
    KEEPER_REWARD_CAP_BPS = 2
    InitialMargin = 2
    MaintenanceMargin = 1
    MaxSize = 1
    MarketParams <- MCParams
    SizeDeltas <- MCDeltas
    Prices = {2, 4}
    VaultGates <- OneGate
    Transfers = {}
    PoolFunding = {}
    MaxFunds = 0
    TraderFunds = 6
    TraderCredit = 0
    PoolFunds = 3
    InsuranceFunds = 1
    InitialLedger <- MCLedger
    Owners = {o1}
    IntentTerms <- ThreeAsks
    Durations = {1}
    MIN_INTENT_DURATION = 1
    MAX_INTENT_DURATION = 2
    RESPONSE_COOLDOWN = 0
    REPUTATION_PRECISION = 10
    NEW_AGENT_SCORE = 5
    DefaultPolicy <- NoFee
    Fees = {0, 1}
    Thresholds = {3}
    Scores = {5}
    Budgets = {1}
    Recipients = {5}
    Waits = {2}
    LastTime = 3
    MaxIntents = 2
    MaxResponses = 2
    MaxChanges = 1
SPECIFICATION LowSpec
INVARIANTS DarkInv ReputationEarned
   
