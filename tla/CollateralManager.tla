--------------------------- MODULE CollateralManager ---------------------------
(***************************************************************************)
(* collateral_manager: traders lock a yield token in escrow and receive    *)
(* USDC credit for it in perp_vault, at the token's price less a haircut.  *)
(*                                                                         *)
(* The manager is an operator of the vault: depositing and withdrawing     *)
(* call credit_collateral and debit_collateral inside the same atomic      *)
(* instruction, so those vault actions are conjuncts here.  Meanwhile the  *)
(* other operators move credit between traders, and the vault's owner      *)
(* pauses it or revokes the manager.  One token is modelled; the program   *)
(* keeps one independent CollateralConfig per mint.                        *)
(***************************************************************************)
EXTENDS PerpVault

CONSTANTS
    cm,             \* the manager's authority account, an operator of the vault
    BPS,            \* 10_000
    TokenUnit,      \* one whole token in its smallest units: 10 ^ decimals
    TokenPrices,    \* prices operators may report
    Haircuts,       \* shares of the price, in BPS, the owner may set
    Thresholds,     \* liquidation thresholds the owner may set
    Deviations,     \* bounds on one price change, in BPS, the owner may set
    TokenCaps,      \* caps a token may be listed with (0 means unlimited)
    TokensEach      \* tokens every trader holds at the start

ASSUME CollateralAssumption ==
    /\ cm \in Keys
    /\ BPS \in Nat \ {0} /\ TokenUnit \in Nat \ {0}
    /\ TokenPrices \subseteq U64 \ {0}
    /\ Haircuts \cup Thresholds \subseteq {h \in U64 : BPS <= 2 * h /\ h <= BPS}
    /\ Deviations \subseteq {d \in U64 : BPS <= 100 * d /\ 2 * d <= BPS}
    /\ TokenCaps \subseteq U64
    /\ TokensEach \in U64

VARIABLES
    config,         \* CollateralManagerConfig
    price_operators,\* keys whose Operator account says authorized
    token,          \* the mint's CollateralConfig; listed once it exists
    tc,             \* every trader's TraderCollateral
    escrow,         \* tokens in the escrow account
    purse           \* tokens in the traders' own accounts

managing == <<config, price_operators>>
tokens_held == <<tc, escrow, purse>>
manager == <<managing, token, tokens_held>>
cvars == <<vars, manager>>

NoCollateral == [amount |-> 0, credited_usdc |-> 0,
                 haircut_at_deposit |-> 0, liquidation_threshold_at_deposit |-> 0]

TotalAmount(c) == SumTo([a \in Accounts |-> c[a].amount], NumAccounts)
TotalCredited(c) == SumTo([a \in Accounts |-> c[a].credited_usdc], NumAccounts)

ManagerTypeOK ==
    /\ TypeOK
    /\ config \in [owner : Keys, pending_owner : Keys \cup {NoKey}, paused : BOOLEAN,
                   liquidation_threshold_bps : U64, max_price_deviation_bps : U64]
    /\ price_operators \subseteq Keys
    /\ token \in [listed : BOOLEAN, active : BOOLEAN, fresh : BOOLEAN, haircut_bps : U64,
                  price : U64, total_deposited : U64, deposit_cap : U64]
    /\ tc \in [Accounts -> [amount : U64, credited_usdc : U64, haircut_at_deposit : U64,
                            liquidation_threshold_at_deposit : U64]]
    /\ escrow \in Nat
    /\ purse \in [Accounts -> Nat]

\* The deployment script has initialized both programs and authorized the
\* manager and the other programs at the vault; no token is listed yet.
ManagerInit ==
    /\ Init
    /\ owner # cm
    /\ config \in [owner : Keys \ {cm}, pending_owner : {NoKey}, paused : {FALSE},
                   liquidation_threshold_bps : Thresholds,
                   max_price_deviation_bps : Deviations]
    /\ price_operators = {}
    /\ token = [listed |-> FALSE, active |-> FALSE, fresh |-> FALSE, haircut_bps |-> 0,
                price |-> 0, total_deposited |-> 0, deposit_cap |-> 0]
    /\ tc = [a \in Accounts |-> NoCollateral]
    /\ escrow = 0
    /\ purse = [a \in Accounts |-> TokensEach]

--------------------------------------------------------------------------------
\* Traders

\* USDC credited for an amount of the token at its current price and haircut.
Credit(amount) == (amount * token.price * token.haircut_bps) \div (TokenUnit * BPS)

DepositedFresh(c, amount, credited) ==     \* a mutant: every deposit takes a snapshot
    [amount |-> c.amount + amount, credited_usdc |-> c.credited_usdc + credited,
     haircut_at_deposit |-> token.haircut_bps,
     liquidation_threshold_at_deposit |-> config.liquidation_threshold_bps]

DepositedAnew(c, amount, credited) ==      \* a mutant: a top-up starts the record again
    [amount |-> amount, credited_usdc |-> credited,
     haircut_at_deposit |-> token.haircut_bps,
     liquidation_threshold_at_deposit |-> config.liquidation_threshold_bps]

\* The trader's record after a deposit.  The first deposit into an empty
\* record takes a snapshot of the haircut and the threshold; a top-up keeps
\* the snapshot, although it is credited at the haircut of the day.
Deposited(c, amount, credited) ==
    LET first == c.amount = 0
    IN  [amount |-> c.amount + amount, credited_usdc |-> c.credited_usdc + credited,
         haircut_at_deposit |-> IF first THEN token.haircut_bps ELSE c.haircut_at_deposit,
         liquidation_threshold_at_deposit |->
             IF first THEN config.liquidation_threshold_bps
                      ELSE c.liquidation_threshold_at_deposit]

DepositToken(a, amount) ==
    LET credited == Credit(amount)
    IN  /\ ~ config.paused
        /\ amount > 0
        /\ token.listed /\ token.active /\ token.fresh
        /\ token.deposit_cap > 0 => token.total_deposited + amount <= token.deposit_cap
        /\ credited \in U64 \ {0}
        /\ tc[a].amount + amount <= MaxU64
        /\ tc[a].credited_usdc + credited <= MaxU64
        /\ token.total_deposited + amount <= MaxU64
        /\ amount <= purse[a]
        /\ tc' = [tc EXCEPT ![a] = Deposited(@, amount, credited)]
        /\ token' = [token EXCEPT !.total_deposited = @ + amount]
        /\ escrow' = escrow + amount
        /\ purse' = [purse EXCEPT ![a] = @ - amount]
        /\ CreditCollateral(cm, a, credited)
        /\ UNCHANGED managing

\* The credit a withdrawal takes back: the same share of the credit as of
\* the tokens, rounded down.
Debit(c, amount) == (c.credited_usdc * amount) \div c.amount

\* The vault is called only when there is something to debit.
DebitVault(a, debit) ==
    IF debit > 0 THEN DebitCollateral(cm, a, debit) ELSE UNCHANGED vars

Minus(x, y) == IF y <= x THEN x - y ELSE 0     \* saturating_sub

WithdrawWhatIsLeft(a, amount) ==    \* a mutant: the debit is cut to what the row still has
    /\ ~ config.paused /\ amount > 0 /\ token.listed /\ token.fresh
    /\ amount <= tc[a].amount /\ amount <= escrow
    /\ LET debit == Debit(tc[a], amount)
           row == ledger.collateral_balance[a]
       IN  /\ DebitVault(a, IF debit <= row THEN debit ELSE row)
           /\ tc' = [tc EXCEPT ![a].amount = @ - amount, ![a].credited_usdc = @ - debit]
    /\ token' = [token EXCEPT !.total_deposited = Minus(@, amount)]
    /\ escrow' = escrow - amount
    /\ purse' = [purse EXCEPT ![a] = @ + amount]
    /\ UNCHANGED managing

WithdrawableIfActive(a, amount) ==  \* a mutant: a delisted token cannot be withdrawn
    /\ ~ config.paused /\ amount > 0 /\ token.active /\ token.fresh
    /\ amount <= tc[a].amount /\ amount <= escrow
    /\ LET debit == Debit(tc[a], amount)
       IN  debit > 0 => DebitAllowed(cm, a, debit)

\* Every check of the instruction, the ones its call of the vault makes included.
Withdrawable(a, amount) ==
    /\ ~ config.paused
    /\ amount > 0
    /\ token.listed /\ token.fresh
    /\ amount <= tc[a].amount
    /\ amount <= escrow
    /\ LET debit == Debit(tc[a], amount)
       IN  debit > 0 => DebitAllowed(cm, a, debit)

WithdrawToken(a, amount) ==
    /\ Withdrawable(a, amount)
    /\ LET debit == Debit(tc[a], amount)
       IN  /\ DebitVault(a, debit)
           /\ tc' = [tc EXCEPT ![a].amount = Minus(@, amount),
                               ![a].credited_usdc = Minus(@, debit)]
    /\ token' = [token EXCEPT !.total_deposited = Minus(@, amount)]
    /\ escrow' = escrow - amount
    /\ purse' = [purse EXCEPT ![a] = @ + amount]
    /\ UNCHANGED managing

--------------------------------------------------------------------------------
\* Price operators, time, and the manager's owner

Distance(x, y) == IF x < y THEN y - x ELSE x - y

UpdatePrice(key, new_price) ==
    /\ key \in price_operators
    /\ token.listed
    /\ ~ config.paused
    /\ (Distance(new_price, token.price) * BPS) \div token.price
          <= config.max_price_deviation_bps
    /\ token' = [token EXCEPT !.price = new_price, !.fresh = TRUE]
    /\ UNCHANGED <<vars, managing, tokens_held>>

\* max_price_age passes without an update.
PriceAges ==
    /\ token.listed
    /\ token' = [token EXCEPT !.fresh = FALSE]
    /\ UNCHANGED <<vars, managing, tokens_held>>

AddCollateral(key, haircut, price, cap) ==
    /\ key = config.owner
    /\ ~ token.listed
    /\ token' = [listed |-> TRUE, active |-> TRUE, fresh |-> TRUE, haircut_bps |-> haircut,
                 price |-> price, total_deposited |-> 0, deposit_cap |-> cap]
    /\ UNCHANGED <<vars, managing, tokens_held>>

UpdateHaircut(key, new_haircut) ==
    /\ key = config.owner
    /\ token.listed
    /\ token' = [token EXCEPT !.haircut_bps = new_haircut]
    /\ UNCHANGED <<vars, managing, tokens_held>>

\* pause_collateral and unpause_collateral, which never fail.
SetActive(key, active) ==
    /\ key = config.owner
    /\ token.listed
    /\ token' = [token EXCEPT !.active = active]
    /\ UNCHANGED <<vars, managing, tokens_held>>

\* The owner's changes to the configuration; pause and unpause never fail.
Configured(key, new_config) ==
    /\ key = config.owner
    /\ config' = new_config
    /\ UNCHANGED <<vars, price_operators, token, tokens_held>>

SetManagerPaused(key, is_paused) == Configured(key, [config EXCEPT !.paused = is_paused])

SetLiquidationThreshold(key, new_threshold) ==
    Configured(key, [config EXCEPT !.liquidation_threshold_bps = new_threshold])

SetMaxPriceDeviation(key, new_bps) ==
    Configured(key, [config EXCEPT !.max_price_deviation_bps = new_bps])

TransferManager(key, new_owner) ==
    Configured(key, [config EXCEPT !.pending_owner = new_owner])

AcceptManager(key) ==
    /\ key = config.pending_owner
    /\ config' = [config EXCEPT !.owner = key, !.pending_owner = NoKey]
    /\ UNCHANGED <<vars, price_operators, token, tokens_held>>

SetPriceOperator(key, op, status) ==
    /\ key = config.owner
    /\ price_operators' = IF status THEN price_operators \cup {op}
                                    ELSE price_operators \ {op}
    /\ UNCHANGED <<vars, config, token, tokens_held>>

--------------------------------------------------------------------------------
TokenStep ==
    \E a \in Accounts, amount \in U64 :
        \/ DepositToken(a, amount)
        \/ WithdrawToken(a, amount)

PriceStep ==
    \/ PriceAges
    \/ \E key \in Keys \ {cm}, price \in TokenPrices : UpdatePrice(key, price)

ManagerOwnerStep ==
    \E key \in Keys \ {cm} :
        \/ \E haircut \in Haircuts :
              \/ UpdateHaircut(key, haircut)
              \/ \E price \in TokenPrices, cap \in TokenCaps :
                    AddCollateral(key, haircut, price, cap)
        \/ \E flag \in BOOLEAN :
              \/ SetActive(key, flag)
              \/ SetManagerPaused(key, flag)
              \/ \E op \in Keys \ {cm} : SetPriceOperator(key, op, flag)
        \/ \E threshold \in Thresholds : SetLiquidationThreshold(key, threshold)
        \/ \E bps \in Deviations : SetMaxPriceDeviation(key, bps)
        \/ \E new_owner \in Keys \ {cm} : TransferManager(key, new_owner)
        \/ AcceptManager(key)

\* What the rest of the system does to the vault that touches credit: the
\* programs settle profits and losses with internal_transfer, and the
\* vault's owner pauses it or changes operators.
VaultSide ==
    /\ \/ \E op \in Keys \ {cm}, from, to \in Accounts, amount \in U64 :
              InternalTransfer(op, from, to, amount)
       \/ Pause(owner)
       \/ Unpause(owner)
       \/ \E op \in Keys, status \in BOOLEAN : SetOperator(owner, op, status)
    /\ UNCHANGED manager

ManagerNext == TokenStep \/ PriceStep \/ ManagerOwnerStep \/ VaultSide

ManagerSpec == ManagerInit /\ [][ManagerNext]_cvars

--------------------------------------------------------------------------------
(* Properties *)

\* The escrow holds exactly what the token's record and the traders' records
\* say is deposited, so the saturating subtractions of withdraw never
\* saturate and the last trader out is paid in full.
EscrowExact ==
    /\ escrow = token.total_deposited
    /\ escrow = TotalAmount(tc)

\* The two programs' books agree: the credit outstanding at the vault,
\* whoever holds it by now, is exactly the credit granted against tokens
\* still in escrow.
CreditsBacked == total_collateral_credits = TotalCredited(tc)

\* Rounding never separates tokens from credit: a trader with tokens in
\* escrow owes some credit for them, and one without owes none, after any
\* sequence of partial withdrawals.
TokensCarryCredit == \A a \in Accounts : tc[a].amount > 0 <=> tc[a].credited_usdc > 0

\* The books of the manager: typed, escrowed, backed, and rounding never
\* separates tokens from credit.
ManagerInv == ManagerTypeOK /\ EscrowExact /\ CreditsBacked /\ TokensCarryCredit

\* A trader who still has the credit can always take all of its tokens out,
\* delisted or not, unless a program is paused, the manager is revoked or
\* the price is out of date: no subtraction, transfer or cap is in the way.
RedeemableWhenCovered ==
    \A a \in Accounts :
        (/\ tc[a].amount > 0
         /\ tc[a].credited_usdc <= ledger.collateral_balance[a]
         /\ ~ config.paused /\ ~ paused
         /\ cm \in authorized /\ token.fresh) => Withdrawable(a, tc[a].amount)

\* Losses are paid before collateral leaves: tokens go back to a trader only
\* together with its own credit, even when the credit has been moved to
\* others since it was granted.
NoTokensWithoutCredit ==
    [][\A a \in Accounts :
        tc'[a].amount < tc[a].amount =>
            ledger.collateral_balance[a] - ledger'.collateral_balance[a]
                = tc[a].credited_usdc - tc'[a].credited_usdc]_cvars

\* A change of the haircut or the threshold is never retroactive: the
\* snapshot a trader's record holds changes only when a deposit finds the
\* record empty.
SnapshotsHold ==
    [][\A a \in Accounts :
        (/\ tc[a].amount > 0
         /\ tc'[a].amount > 0) =>
            /\ tc'[a].haircut_at_deposit = tc[a].haircut_at_deposit
            /\ tc'[a].liquidation_threshold_at_deposit
                  = tc[a].liquidation_threshold_at_deposit]_cvars
================================================================================
