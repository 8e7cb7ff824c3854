----------------------------- MODULE TradingVault ------------------------------
(***************************************************************************)
(* trading_vault: a manager trades with the pooled funds of depositors.    *)
(*                                                                         *)
(* A vault is a trader of the engine with a row of its own in perp_vault.  *)
(* Depositors hold shares of what it is worth: its row, and its margins    *)
(* and unrealized profits in the markets it has registered.  Fees, shares  *)
(* and the drawdown limit are all computed from that number at the moment  *)
(* of an instruction, while marks move, keepers liquidate the vault and    *)
(* other depositors come and go in between.                                *)
(*                                                                         *)
(* The module has one vault.  Callers pass the rows the account comments   *)
(* document, and the market they name is the market they trade.  Shares    *)
(* and per-share values are u128, wide enough never to overflow.           *)
(***************************************************************************)
EXTENDS TradeRouting, FiniteSets

CONSTANTS
    tv,             \* the program's authority account, an operator of the engine
    VaultRow,       \* the vault as a trader
    Depositors, Managers,   \* rows of those who may deposit, and create the vault
    VaultOwners,         \* keys that may own the program
    VaultTerms,          \* what a manager may create the vault with
    PRICE_PRECISION, SHARE_PER_PRICE, SECONDS_PER_YEAR,
    MIN_FIRST_DEPOSIT, MAX_VAULT_MARKETS,
    MAX_PERFORMANCE_FEE_BPS, MAX_MANAGEMENT_FEE_BPS, MAX_DRAWDOWN_BPS,
    DEFAULT_DRAWDOWN_COOLDOWN_SECS,
    Amounts, Redemptions,   \* USDC deposited, shares redeemed
    Cooldowns, Caps         \* settings an owner and a manager may choose

SHARE_PRECISION == PRICE_PRECISION * SHARE_PER_PRICE

TermsOfVault == [performance_fee_bps : Nat, management_fee_bps : Nat, deposit_cap : U64,
                 lockup_period_secs : Nat, max_drawdown_bps : Nat]

ASSUME TradingVaultAssumption ==
    /\ tv \in Keys
    /\ VaultRow \in Traders
    /\ Depositors \cup Managers \subseteq Accounts \ {VaultRow}
    /\ VaultTerms \subseteq TermsOfVault
    /\ {PRICE_PRECISION, SHARE_PER_PRICE, SECONDS_PER_YEAR} \subseteq Nat \ {0}
    /\ {MIN_FIRST_DEPOSIT, MAX_VAULT_MARKETS, DEFAULT_DRAWDOWN_COOLDOWN_SECS,
        MAX_PERFORMANCE_FEE_BPS, MAX_MANAGEMENT_FEE_BPS, MAX_DRAWDOWN_BPS} \subseteq Nat
    /\ Amounts \cup Caps \subseteq U64
    /\ MAX_PERFORMANCE_FEE_BPS <= BPS
    /\ Redemptions \cup Cooldowns \subseteq Nat

\* config is TradingVaultConfig.
VARIABLES
    vault,      \* the vault's account
    row_open,   \* the vault's row in perp_vault exists
    holding,    \* the Depositor accounts
    billed,     \* history: management fees paid since when and on how much,
                \* and the value per share of the last performance fee
    last_breach     \* history: when the drawdown limit last paused the vault

tvars == <<config, vault, row_open, holding, now, billed, last_breach>>
allvars == <<vars, venue_authorized, tvars, changes>>

NoVault == [created |-> FALSE, manager |-> NoAccount, paused |-> FALSE, total_shares |-> 0,
            performance_fee_bps |-> 0, management_fee_bps |-> 0, high_water_mark |-> 0,
            last_fee_accrual |-> 0, deposit_cap |-> 0, lockup_period_secs |-> 0,
            max_drawdown_bps |-> 0, drawdown_paused_at |-> 0, open_markets |-> {}]
NoHolding == [shares |-> 0, deposit_timestamp |-> 0]

VaultTypeOK ==
    /\ TypeOK
    /\ venue_authorized \in BOOLEAN
    /\ config \in [owner : VaultOwners, pending_owner : VaultOwners \cup {NoKey},
                   drawdown_cooldown_secs : Nat, operators : SUBSET VaultOwners]
    /\ vault \in [created : BOOLEAN, manager : Managers \cup {NoAccount}, paused : BOOLEAN,
                  total_shares : Nat, performance_fee_bps : 0 .. MAX_PERFORMANCE_FEE_BPS,
                  management_fee_bps : 0 .. MAX_MANAGEMENT_FEE_BPS, high_water_mark : Nat,
                  last_fee_accrual : 0 .. now, deposit_cap : U64, lockup_period_secs : Nat,
                  max_drawdown_bps : 0 .. MAX_DRAWDOWN_BPS, drawdown_paused_at : 0 .. now,
                  open_markets : SUBSET Markets]
    /\ row_open \in BOOLEAN
    /\ holding \in [Accounts -> [shares : Nat, deposit_timestamp : 0 .. now]]
    /\ now \in 1 .. LastTime
    /\ billed \in [since : 0 .. now, management : Nat, top_equity : U64, charged_at : Nat]
    /\ last_breach \in 0 .. now
    /\ changes \in 0 .. MaxChanges

\* initialize, after the deployment has wired the program to engine and vault.
VaultInit ==
    /\ venue_authorized = TRUE
    /\ \E key \in VaultOwners :
          config = [owner |-> key, pending_owner |-> NoKey,
                    drawdown_cooldown_secs |-> DEFAULT_DRAWDOWN_COOLDOWN_SECS,
                    operators |-> {}]
    /\ vault = NoVault
    /\ row_open = FALSE
    /\ holding = [a \in Accounts |-> NoHolding]
    /\ now = 1
    /\ billed = [since |-> 0, management |-> 0, top_equity |-> 0, charged_at |-> 0]
    /\ last_breach = 0
    /\ changes = 0

--------------------------------------------------------------------------------
\* What the vault is worth

ValueIn(m) ==
    LET pos == position[m][VaultRow]
    IN  pos.margin + Pnl(pos.size, pos.entry_price, market[m].mark_price)

Larger(x, y) == IF x > y THEN x ELSE y

EquityOfRowOnly ==      \* a mutant: what is locked and unrealized is left out
    Spendable(ledger, VaultRow)

\* compute_vault_equity: the callers pass exactly the registered markets.
Equity ==
    Larger(0, Spendable(ledger, VaultRow)
                  + SumTo([m \in Markets |-> IF m \in vault.open_markets THEN ValueIn(m) ELSE 0],
                          NumMarkets))

EquityFits == Spendable(ledger, VaultRow) <= MaxU64 /\ Equity <= MaxU64

EquityPerShare(equity, shares) == (equity * SHARE_PRECISION) \div shares

--------------------------------------------------------------------------------
\* Fees

\* A fee that would take everything is not taken.
Taken(fee, equity) == IF fee < equity THEN fee ELSE 0

\* accrue_management_fee; whatever it takes, the clock of the fee is set.
ManagementFee(equity) ==
    IF vault.total_shares = 0 THEN 0
    ELSE (equity * vault.management_fee_bps * (now - vault.last_fee_accrual))
             \div (BPS * SECONDS_PER_YEAR)

\* collect_performance_fee
AtNewHigh(equity) ==
    /\ vault.performance_fee_bps > 0
    /\ vault.total_shares > 0
    /\ EquityPerShare(equity, vault.total_shares) > vault.high_water_mark

PerformanceFee(equity) ==
    IF AtNewHigh(equity)
    THEN LET profit_per_share ==
                 EquityPerShare(equity, vault.total_shares) - vault.high_water_mark
             total_profit == (profit_per_share * vault.total_shares) \div SHARE_PRECISION
         IN  Share(vault.performance_fee_bps, total_profit)
    ELSE 0

\* What an instruction takes of each: on a withdrawal, the second of what
\* the first leaves.
ManagementTaken == Taken(ManagementFee(Equity), Equity)
PerformanceTaken == LET after_mgmt == Equity - ManagementTaken
                    IN  Taken(PerformanceFee(after_mgmt), after_mgmt)

MarkKept(equity) ==     \* a mutant: the mark is not raised when the fee is taken
    vault.high_water_mark

MarkAfterFee(equity) ==
    IF AtNewHigh(equity) THEN EquityPerShare(equity, vault.total_shares)
    ELSE vault.high_water_mark

Billed(equity, management, performance) ==
    [billed EXCEPT !.management = @ + management,
                 !.top_equity = Larger(@, equity),
                 !.charged_at = IF performance > 0
                                THEN EquityPerShare(equity - management, vault.total_shares)
                                ELSE @]

--------------------------------------------------------------------------------
\* Depositors

SharesFor(amount, equity) ==
    IF vault.total_shares = 0 THEN amount * SHARE_PER_PRICE
    ELSE IF equity > 0 THEN (amount * vault.total_shares) \div equity ELSE 0

Deposit(d, amount) ==
    LET left == Equity - ManagementTaken
        shares == SharesFor(amount, left)
        charged == Paid(ledger, VaultRow, vault.manager, ManagementTaken)
        total_shares == vault.total_shares + shares
    IN  /\ vault.created /\ row_open
        /\ amount > 0
        /\ ~ vault.paused
        /\ EquityFits /\ ManagementFee(Equity) \in U64
        /\ FeePayable(ledger, VaultRow, vault.manager, ManagementTaken)
        /\ vault.deposit_cap > 0 => left + amount <= vault.deposit_cap
        /\ vault.total_shares = 0 => amount >= MIN_FIRST_DEPOSIT
        /\ shares > 0
        /\ FeePayable(charged, d, VaultRow, amount)
        /\ left + amount \in U64
        /\ ledger' = Paid(charged, d, VaultRow, amount)
        /\ vault' = [vault EXCEPT
               !.total_shares = total_shares,
               !.last_fee_accrual = now,
               !.high_water_mark = Larger(@, EquityPerShare(left + amount, total_shares))]
        /\ holding' = [holding EXCEPT ![d] = [shares |-> @.shares + shares,
                                              deposit_timestamp |-> now]]
        /\ billed' = Billed(Equity, ManagementTaken, 0)
        /\ UNCHANGED <<admin, engine_pool, market, position, vault_gate, venue_authorized,
                       config, row_open, now, last_breach>>

UsdcFor(shares) ==
    (shares * (Equity - ManagementTaken - PerformanceTaken)) \div vault.total_shares

LedgerAfterFees ==
    Paid(Paid(ledger, VaultRow, vault.manager, ManagementTaken),
         VaultRow, vault.manager, PerformanceTaken)

WithdrawUnlessPaused(d, shares) ==      \* a mutant: withdrawals stop with deposits
    /\ ~ vault.paused
    /\ shares > 0 /\ holding[d].shares >= shares
    /\ now >= holding[d].deposit_timestamp + vault.lockup_period_secs
    /\ UsdcFor(shares) > 0

\* Neither a pause nor the drawdown limit keeps a depositor in.
WithdrawAllowed(d, shares) ==
    /\ vault.created
    /\ shares > 0
    /\ holding[d].shares >= shares
    /\ now >= holding[d].deposit_timestamp + vault.lockup_period_secs
    /\ EquityFits
    /\ ManagementFee(Equity) \in U64
    /\ FeePayable(ledger, VaultRow, vault.manager, ManagementTaken)
    /\ PerformanceFee(Equity - ManagementTaken) \in U64
    /\ FeePayable(Paid(ledger, VaultRow, vault.manager, ManagementTaken),
                  VaultRow, vault.manager, PerformanceTaken)
    /\ UsdcFor(shares) > 0
    /\ FeePayable(LedgerAfterFees, VaultRow, d, UsdcFor(shares))

Withdraw(d, shares) ==
    /\ WithdrawAllowed(d, shares)
    /\ ledger' = Paid(LedgerAfterFees, VaultRow, d, UsdcFor(shares))
    /\ vault' = [vault EXCEPT !.total_shares = @ - shares,
                              !.last_fee_accrual = now,
                              !.high_water_mark = MarkAfterFee(Equity - ManagementTaken)]
    /\ holding' = [holding EXCEPT ![d].shares = @ - shares]
    /\ billed' = Billed(Equity, ManagementTaken, PerformanceTaken)
    /\ UNCHANGED <<admin, engine_pool, market, position, vault_gate, venue_authorized,
                   config, row_open, now, last_breach>>

--------------------------------------------------------------------------------
\* The manager

Opened(manager, terms) ==
    [NoVault EXCEPT !.created = TRUE,
                    !.manager = manager,
                    !.performance_fee_bps = terms.performance_fee_bps,
                    !.management_fee_bps = terms.management_fee_bps,
                    !.high_water_mark = PRICE_PRECISION,
                    !.last_fee_accrual = now,
                    !.deposit_cap = terms.deposit_cap,
                    !.lockup_period_secs = terms.lockup_period_secs,
                    !.max_drawdown_bps = terms.max_drawdown_bps]

CreateVault(manager, terms) ==
    /\ ~ vault.created
    /\ terms.performance_fee_bps <= MAX_PERFORMANCE_FEE_BPS
    /\ terms.management_fee_bps <= MAX_MANAGEMENT_FEE_BPS
    /\ terms.max_drawdown_bps \in 1 .. MAX_DRAWDOWN_BPS
    /\ vault' = Opened(manager, terms)
    /\ billed' = [billed EXCEPT !.since = now]
    /\ UNCHANGED <<vars, venue_authorized, config, row_open, holding, now, last_breach>>

\* Credit and debit one unit of collateral at perp_vault, which opens the row
\* that transfers need; anybody may, at any time.
InitVaultBalance ==
    /\ vault.created
    /\ venue_authorized
    /\ ~ vault_gate.paused
    /\ ledger.collateral_balance[VaultRow] < MaxU64
    /\ row_open' = TRUE
    /\ UNCHANGED <<vars, venue_authorized, config, vault, holding, now, billed, last_breach>>

\* check_drawdown, against a mark that only ever rises.
Breached(equity) ==
    /\ vault.total_shares > 0
    /\ EquityPerShare(equity, vault.total_shares)
           < SatSub(vault.high_water_mark, Share(vault.max_drawdown_bps, vault.high_water_mark))

RegisteredUnlessFull(m) ==      \* a mutant: a full registry is not an error
    vault' = [vault EXCEPT !.open_markets =
                  IF Cardinality(@) < MAX_VAULT_MARKETS THEN @ \cup {m} ELSE @]

\* has_market, push_market
Registered(m) ==
    /\ m \in vault.open_markets \/ Cardinality(vault.open_markets) < MAX_VAULT_MARKETS
    /\ vault' = [vault EXCEPT !.open_markets = @ \cup {m}]

\* A breach of the drawdown limit pauses the vault in place of the trade, and
\* the instruction succeeds: an error would undo the pause.
ManagerOpenPosition(manager, m, size_delta, fill_price) ==
    /\ vault.created /\ manager = vault.manager
    /\ ~ vault.paused
    /\ EquityFits
    /\ \/ /\ Breached(Equity)
          /\ vault' = [vault EXCEPT !.paused = TRUE, !.drawdown_paused_at = now]
          /\ last_breach' = now
          /\ UNCHANGED <<market, position, ledger>>
       \/ /\ ~ Breached(Equity)
          /\ LegAllowed(Books, tv, m, VaultRow, size_delta, fill_price)
          /\ Becomes(Leg(Books, m, VaultRow, size_delta, fill_price))
          /\ Registered(m)
          /\ UNCHANGED last_breach
    /\ UNCHANGED <<admin, engine_pool, vault_gate, venue_authorized, config, row_open,
                   holding, now, billed>>

\* perp_engine.close_position signed by the program; a paused vault may close.
ManagerClosePosition(manager, m, fill_price) ==
    /\ vault.created /\ manager = vault.manager
    /\ ClosePosition(tv, m, VaultRow, fill_price)
    /\ UNCHANGED <<venue_authorized, tvars>>

UnpauseAtOnce(manager) ==       \* a mutant: the cooldown is not looked at
    /\ vault.created /\ manager = vault.manager
    /\ vault' = [vault EXCEPT !.paused = FALSE, !.drawdown_paused_at = 0]
    /\ UNCHANGED <<vars, venue_authorized, config, row_open, holding, now, billed, last_breach>>

UnpauseVault(manager) ==
    /\ vault.created /\ manager = vault.manager
    /\ vault.drawdown_paused_at > 0
           => now - vault.drawdown_paused_at >= config.drawdown_cooldown_secs
    /\ vault' = [vault EXCEPT !.paused = FALSE, !.drawdown_paused_at = 0]
    /\ UNCHANGED <<vars, venue_authorized, config, row_open, holding, now, billed, last_breach>>

\* The manager may raise or drop the cap, and shorten the lockup.
UpdateVaultSafetyLimits(manager, cap, lockup) ==
    /\ vault.created /\ manager = vault.manager
    /\ vault.deposit_cap > 0 => cap = 0 \/ cap >= vault.deposit_cap
    /\ lockup <= vault.lockup_period_secs
    /\ vault' = [vault EXCEPT !.deposit_cap = cap, !.lockup_period_secs = lockup]
    /\ UNCHANGED <<vars, venue_authorized, config, row_open, holding, now, billed, last_breach>>

--------------------------------------------------------------------------------
\* The program's owner

\* Stops deposits and trades until the manager's next unpause.
EmergencyPause(key) ==
    /\ vault.created
    /\ key = config.owner
    /\ vault' = [vault EXCEPT !.paused = TRUE]
    /\ UNCHANGED <<vars, venue_authorized, config, row_open, holding, now, billed, last_breach>>

ConfigBecomes(c) ==
    /\ config' = c
    /\ UNCHANGED <<vars, venue_authorized, vault, row_open, holding, now, billed, last_breach>>

SetDrawdownCooldown(key, secs) ==
    /\ key = config.owner
    /\ ConfigBecomes([config EXCEPT !.drawdown_cooldown_secs = secs])

\* Written and never read by the program.
SetVaultOperator(key, operator, status) ==
    /\ key = config.owner
    /\ ConfigBecomes([config EXCEPT !.operators =
           IF status THEN @ \cup {operator} ELSE @ \ {operator}])

TransferVaults(key, new_owner) ==
    /\ key = config.owner
    /\ ConfigBecomes([config EXCEPT !.pending_owner = new_owner])

AcceptVaults(key) ==
    /\ key = config.pending_owner
    /\ ConfigBecomes([config EXCEPT !.owner = key, !.pending_owner = NoKey])

--------------------------------------------------------------------------------
\* Everything around it

\* The owner of perp_vault lets the program move value, or no longer.
AuthorizeVenue(status) ==
    /\ venue_authorized' = status
    /\ UNCHANGED <<vars, tvars>>

Listed(m, params) ==
    /\ \E key \in Keys : AddMarket(key, m, params)
    /\ UNCHANGED <<venue_authorized, tvars>>

VaultRepriced(m, price) ==
    /\ \E op \in Keys : UpdateMarkPrice(op, m, price)
    /\ UNCHANGED <<venue_authorized, tvars>>

VaultLiquidated(m, keeper) ==
    /\ \E op \in Keys, insurance \in Accounts : LiquidatePosition(op, m, VaultRow, keeper, insurance)
    /\ UNCHANGED <<venue_authorized, tvars>>

VaultTick ==
    /\ now < LastTime
    /\ now' = now + 1
    /\ UNCHANGED <<vars, venue_authorized, config, vault, row_open, holding, billed, last_breach>>

DepositorStep ==
    \E d \in Depositors :
        \/ \E amount \in Amounts : Deposit(d, amount)
        \/ \E shares \in Redemptions : Withdraw(d, shares)

ManagerStep ==
    \E manager \in Managers :
        \/ \E terms \in VaultTerms : CreateVault(manager, terms)
        \/ \E m \in Markets, price \in Prices :
              \/ \E size_delta \in SizeDeltas : ManagerOpenPosition(manager, m, size_delta, price)
              \/ ManagerClosePosition(manager, m, price)
        \/ UnpauseVault(manager)

OutsideStep ==
    \E m \in Markets :
        \/ \E price \in Prices : VaultRepriced(m, price)
        \/ \E keeper \in Managers : VaultLiquidated(m, keeper)

SettingsStep ==
    \/ \E manager \in Managers, cap \in Caps, lockup \in Cooldowns :
          UpdateVaultSafetyLimits(manager, cap, lockup)
    \/ \E key \in VaultOwners :
          \/ EmergencyPause(key)
          \/ \E secs \in Cooldowns : SetDrawdownCooldown(key, secs)
          \/ \E operator \in VaultOwners, status \in BOOLEAN : SetVaultOperator(key, operator, status)
          \/ \E new_owner \in VaultOwners : TransferVaults(key, new_owner)
    \/ \E status \in BOOLEAN : AuthorizeVenue(status)
    \/ \E m \in Markets, params \in MarketParams : Listed(m, params)

VaultNext ==
    \/ /\ \/ DepositorStep
          \/ ManagerStep
          \/ InitVaultBalance
          \/ OutsideStep
          \/ VaultTick
          \/ \E key \in VaultOwners : AcceptVaults(key)
       /\ UNCHANGED changes
    \/ SettingsStep /\ changes < MaxChanges /\ changes' = changes + 1

\* Deployed with any markets, before there is a vault.
VaultStart == (\E listed \in SUBSET Markets : Deployed(listed)) /\ VaultInit

VaultSpec == VaultStart /\ [][VaultNext]_allvars

--------------------------------------------------------------------------------
\* Properties

\* The shares outstanding are the holders' shares, through every rounded
\* issue and redemption: nobody's claim is on nothing.
SharesAddUp ==
    vault.total_shares = SumTo([a \in Accounts |-> holding[a].shares], NumAccounts)

\* Wherever the vault has a position its market is registered, so what the
\* program takes for the vault's worth leaves no position out.
RegistryComplete ==
    \A m \in Markets : position[m][VaultRow].size # 0 => m \in vault.open_markets

\* No second is charged twice: all management fees together are at most the
\* fee on the vault's best worth for the time it has existed, however
\* deposits and withdrawals are spread over that time.
ChargedOnce ==
    billed.management * BPS * SECONDS_PER_YEAR
        <= billed.top_equity * vault.management_fee_bps * (now - billed.since)

\* The vault's books: typed, shares and markets all accounted for, and no
\* stretch of time paid for twice.
TradingVaultInv ==
    /\ VaultTypeOK
    /\ SharesAddUp
    /\ RegistryComplete
    /\ ChargedOnce

\* Whoever is outside of the lockup can redeem all shares that are worth a unit
\* after fees, while the vault has no position and perp_vault serves the
\* program: no pause, drawdown, cap or sum of fees keeps a depositor in.
HoldersCanLeave ==
    /\ venue_authorized
    /\ ~ vault_gate.paused /\ vault_gate.max_per_tx = 0
    /\ \A m \in Markets : position[m][VaultRow].size = 0
    => \A d \in Depositors :
          /\ holding[d].shares > 0
          /\ UsdcFor(holding[d].shares) > 0
          /\ now >= holding[d].deposit_timestamp + vault.lockup_period_secs
          => WithdrawAllowed(d, holding[d].shares)

\* What the vault is really worth: every market, registered or not, and no
\* floor at zero.
Worth == Spendable(ledger, VaultRow) + SumTo([m \in Markets |-> ValueIn(m)], NumMarkets)

\* A deposit or withdrawal never lowers what a share of the others is worth
\* by more than the fees taken: whoever comes or goes, at whatever marks,
\* rounding is at that person's expense.
StayersNotDiluted ==
    [][vault.total_shares > 0 /\ vault'.total_shares \notin {0, vault.total_shares} =>
          LET paid == IF vault'.total_shares > vault.total_shares THEN ManagementTaken
                      ELSE ManagementTaken + PerformanceTaken
          IN  Worth' * vault.total_shares >= (Worth - paid) * vault'.total_shares]_allvars

\* A performance fee is taken only on a worth per share above any on which
\* one was taken before: no gain is charged twice.
ChargedOnNewHighs == [][billed'.charged_at # billed.charged_at =>
                            billed'.charged_at > billed.charged_at]_allvars

\* For the shortest cooldown after the drawdown limit paused the vault, its
\* manager takes on no position, however often pauses are set and lifted.
CooldownHeld ==
    [][\A m \in Markets :
          Abs(position'[m][VaultRow].size) > Abs(position[m][VaultRow].size)
          => \/ last_breach = 0
             \/ \E secs \in Cooldowns \cup {DEFAULT_DRAWDOWN_COOLDOWN_SECS} :
                   now - last_breach >= secs]_allvars
================================================================================
