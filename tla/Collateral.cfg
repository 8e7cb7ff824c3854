\* Two traders with two tokens each, one owner's key that is also the other
\* programs' operator, and the manager's authority.
CONSTANTS
    NumAccounts = 2
    MaxU64 = 3
    cm = cm
    Keys = {k1, cm}
    NoKey = NoKey
    LimitValues = {0}
    InitialWallet <- NoWallets
    BPS = 4
    TokenUnit = 2
    TokenPrices = {2, 3}
    Haircuts = {2, 3}
    Thresholds = {3}
    Deviations = {2}
    TokenCaps = {0, 3}
    TokensEach = 2
SPECIFICATION ManagerSpec
INVARIANTS ManagerInv RedeemableWhenCovered
PROPERTIES NoTokensWithoutCredit SnapshotsHold
