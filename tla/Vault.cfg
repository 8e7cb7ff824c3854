\* Three traders and two keys, counters of two values past zero: money
\* movements in every order, with pausing, limits, operator revocation and
\* ownership hand-over between them.  Keys are interchangeable.
CONSTANTS
    NumAccounts = 3
    MaxU64 = 2
    Keys = {k1, k2}
    NoKey = NoKey
    LimitValues = {0, 1}
    WalletEach = 1
    InitialWallet <- MCWallet
SYMMETRY KeySymmetry
SPECIFICATION Spec
INVARIANTS VaultInv EveryClaimPayable
PROPERTIES ImplementsCustody AuthorityKept
