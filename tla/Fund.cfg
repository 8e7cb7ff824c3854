\* One key that owns and operates, two markets, days of two clock steps: up to
\* three rewards while the daily cap is lifted, lowered and removed, and bad
\* debt up to the counters' end.
SPECIFICATION Spec
CONSTANTS
    NumAccounts = 2
    MaxU64 = 3
    NumMarkets = 2
    Fund = 1
    alice = alice
    bob = bob
    Keys = {alice}
    NoKey = NoKey
    ONE_DAY_SECS = 2
    Genesis = 2
    MaxNow = 6
    Amounts = {1}
    Caps = {0, 1, 2}
    MaxPayments = 3
    MaxFunds = 1
    MaxTxTransfer = 0
INVARIANTS FundInv TwiceTheCap
CHECK_DEADLOCK FALSE
