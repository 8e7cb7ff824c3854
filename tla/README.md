# SUR Protocol on Solana: a verification project

TLA+ models of the eleven on-chain programs of SUR Protocol (`src/programs`),
of the account interfaces between them and their clients (`src/types`,
`src/clients`), and of the runtime that executes them; TLC runs that check the
models on small instances; TLAPS proofs of what matters most for every size.
Every definition is translated from the source; `PROJECT.json` maps it to its
lines.

Contents: [the system](#the-system), [modules](#modules), [runs](#runs),
[fairness](#fairness), [proofs](#proofs), [where code and text
differ](#where-code-and-text-differ), [not modelled](#not-modelled),
[plan](#plan).

## The system

SUR is a perpetual-futures exchange. Eleven Anchor programs keep its state in
program-derived accounts. An instruction is one atomic transaction: when it or
a program it calls returns an error, nothing has happened. Concurrency is the
arbitrary order in which instructions of traders, operators, keepers and
owners arrive, with the clock, prices and other people's instructions moving
between what somebody read and what that person then sends. Below that, the
runtime runs transactions side by side under locks on the accounts they list.

| Program | State | Instructions that change it | Calls |
|---|---|---|---|
| `perp_vault` | configuration and limits, a row per trader (USDC `balance`, `collateral_balance`), two running totals, the USDC token account, operators | deposit, withdraw, internal_transfer, credit/debit_collateral, set_operator, pause/unpause, three limits, ownership | SPL token |
| `perp_engine` | markets (margins, size limit, mark price, open interest), positions (size, entry, margin), pool, insurance balance, operators | open, reduce, close, liquidate, update_mark_price, add_market, bootstrap_engine_pool, set_insurance_fund_balance, set_operator, pause/unpause, ownership | vault.internal_transfer |
| `insurance_fund` | caps, daily counter and window, bad debt per market and in total, operators | pay_keeper_reward, record_bad_debt, bootstrap, caps, set_operator, pause/unpause, ownership | vault.internal_transfer |
| `oracle_router` | feeds (limits, last price), circuit breaker | push_price, configure_feed, breaker parameters and reset, set_operator, pause/unpause, ownership | engine.update_mark_price |
| `liquidator` | pause flag, counters per keeper and in total | liquidate, pause/unpause, ownership | engine.liquidate_position |
| `auto_deleveraging` | switches, threshold, cooldown, counters, operators | execute_adl, switches and parameters, set_operator, ownership | engine.open_position |
| `sur_timelock` | delay, guardian, queue, pausable targets | queue, execute, cancel, set_delay, guardian, targets, ownership | any program |
| `collateral_manager` | collateral types (price, haircut, caps), a record per trader and type, escrow | deposit, withdraw, update_price, add/update/pause a type, thresholds, ownership | vault.credit/debit_collateral, SPL token |
| `order_settlement` | fees, spread tiers, delay, nonce pages, commit snapshots | commit_order, settle_one, parameters, ownership | engine.open/reduce/close, vault.internal_transfer |
| `a2a_darkpool` | intents, responses, reputations, configuration | post/cancel intent and response, accept_and_settle, parameters, ownership | engine.open_position, vault.internal_transfer |
| `trading_vault` | vaults (shares, high water mark, drawdown, market registry), depositors | create, deposit, withdraw, fees, manager trades, pauses, ownership | engine, vault |

Clients reach the programs through account lists that the IDL types describe
(`src/types`, `src/idl`): the front end (`clients/web`) has transaction hooks
and a copy of the address derivations, the SDK (`clients/sdk`) has
derivations and read-only views, `clients/api` is an indexer with a points
engine. The operator processes that settle, push prices and deleverage are not
in the repository: they enter the models as whoever holds an operator key.

The vault is where the programs meet. Each authority account of another
program owns one row in it (the engine's pool, the fund's row, a trading
vault's row), and every payment is `internal_transfer`, which spends
`balance` before `collateral_balance`. `VaultLedger` holds the rows and that
rule once; everything that moves money is built on it. The other meeting
point is the engine's `open_position`, `reduce_position` and
`close_position`, which three programs chain inside their own instructions:
`TradeRouting` holds them as calls on a book of positions and rows.

### What is hard here, and what makes each part correct

- **Totals kept by deltas.** `total_deposits`, open interest, the daily
  reward counter, the bad debt total, escrow totals and outstanding credit are
  never recomputed and partly updated with saturating arithmetic. They have to
  be the sums they stand for: `VaultInv`, `OpenInterestExact`, `FundInv`,
  `ManagerInv`.
- **Value.** Rows must be payable, a loss beyond the margin must never be
  charged to the trader, the pool must pay for nothing but profits, a trade
  must strand no margin, who stays in a trading vault must not pay for who
  leaves: `EveryClaimPayable`, `LimitedLiability`, `PoolPaysOnlyProfits`,
  `NothingStranded`, `TradesMatch`, `BothSidesOrNone`, `StayersNotDiluted`.
- **Rounding.** Average entry, notional, margin, credit and shares each round
  over any sequence of operations: `EngineInv`, `SafeAtEntry`,
  `OnlyLosersLiquidatable`, `ManagerInv`, `TradingVaultInv`.
- **Order of instructions.** Pauses, revocations and hand-overs between
  other people's instructions (`AuthorityKept`); a queued operation whose
  delay, entry and owner change before it is dispatched (`ImplementsEmbargo`);
  a deleveraging on a stale reading (`FreshReduces`); fees, delays, haircuts
  and marks that change between an agreement and its execution (`CommitsBind`,
  `FeesAsPosted`, `SnapshotsHold`, `ChargedOnNewHighs`).
- **Retries and races.** The same signed order twice (`SettlementInv`), two
  responses to one intent (`DarkInv`, `AgreementsHold`), a reputation counted
  twice (`ReputationEarned`), a fee collected twice (`TradingVaultInv`), an
  address built from an id somebody else used in between (`RuntimeInv`).
- **Time.** A daily window (`TwiceTheCap`), a breaker's cooldown
  (`QuietAfterJump`), a notice period (`ImplementsEmbargo`), a drawdown
  pause (`CooldownHeld`), expiries (`AgreementsHold`, `SignedTermsKept`).
- **Partial failure.** A call that fails after the caller has written its own
  state: `OracleInv`, `FundInv`, `NoTokensWithoutCredit`, `BothSidesOrNone`.
- **What Solana adds.** An assignment to an account the transaction did not
  list as writable, a privilege a caller does not have, a caller's copy
  written back over what the program it called has changed: `RuntimeInv`,
  `ImplementsSerial`.
- **Progress.** A breaker that has tripped must recover without the owner
  (`Recovers`); a position under its margin must be liquidatable (`RiskInv`);
  a holder of shares or of escrowed tokens must be able to leave
  (`HoldersCanLeave`, `RedeemableWhenCovered`).

The list, each item at its line, is under `hazards` in `PROJECT.json`.

## Modules

```
Sums            totals of a table           \
VaultLedger     rows, internal_transfer      | VaultLedgerProofs
 |- PerpVault   perp_vault                  \                   implements Custody
 |   |- CollateralManager  collateral_mgr.   | PerpVaultProofs
 |- PerpEngine  perp_engine                 \
 |   |- Liquidator         liquidator        |   with AutoDeleveraging: RiskControls
 |   |- AutoDeleveraging   auto_deleveraging | PerpEngineProofs
 |   |- TradeRouting       venues' calls    /
 |       |- OrderSettlement    order_settlement \
 |       |- DarkPool           a2a_darkpool      | VenueProofs
 |       |- TradingVault       trading_vault    /
 |- InsuranceFund          insurance_fund         InsuranceFundProofs
OracleRouter    oracle_router, engine marks OracleRouterProofs
 |- OracleKeeper  with an honest operator and a moving world
SurTimelock     sur_timelock                SurTimelockProofs    implements Embargo

Interfaces      addresses, account lists of every instruction (types/*.ts)
 |- Programs    the accounts a handler derives, assigns and passes on
 |   |- Execution   Anchor's and the runtime's checks, what is written back
 |   |- WebClient   the web hooks' transactions \
 |- SdkClient       the SDK's addresses         |- ClientScene (arguments)
Sealevel        transactions side by side   SealevelProofs       implements SerialLedger
MC*             instances for TLC
```

Conventions. One action per instruction, guards in the order of the code's
checks. An instruction that fails is not a step, and a call to another program
is part of the caller's action. `MaxU64` is the width of a u64 (and fixes that
of i64): checked arithmetic is a guard against it, saturating arithmetic is
`SatAdd`/`SatSub`. Accounts are numbers `1 .. NumAccounts`, so that sums are
recursive functions the proofs can use; keys, feeds and operations are model
values. Definitions marked as mutants are bugs the code does not have; they
serve to confirm that each property would notice.

- **VaultLedger** has the two columns, `Spendable`, and `TransferAllowed` and
  `Transferred`, which together are the body of `internal_transfer`,
  including the refusal of a transfer to oneself.
- **PerpVault** adds everything else the vault keeps, the token account and
  the traders' own wallets. `Donate` is anybody sending USDC to the token
  account directly, which is why `Solvent` is an inequality. **Custody** is
  the promise it implements: claims in two columns, moved, never made, each
  backed.
- **CollateralManager** is composed with the whole vault: granting and taking
  back credit are the vault's actions inside the manager's. One token; the age
  of its price is one flag. `VaultSide` lets the other programs move the
  credit on meanwhile, and the vault's owner pause it or revoke the manager.
- **PerpEngine** has markets and positions as records, the arithmetic of fills
  as operators (`Pnl`, `EntryPrice`, `RequiredMargin`, `Rebook`, ...), and the
  vault as `ledger` plus one `vault_gate`: what can make the vault refuse an
  engine transfer (its pause, its per-transfer limit, the engine's own
  authorization). `VaultDeposit` and `VaultWithdraw` let traders move money in
  and out between fills. `open_position`, `reduce_position` and
  `close_position` are kept apart because they settle differently.
- **TradeRouting** turns those three instructions and `internal_transfer` into
  operators from a book to a book, so that one instruction of a venue chains
  several calls, each seeing what the one before did, in one step.
- **OrderSettlement** takes what traders have signed as a constant set (no
  operator can make an order up) and keeps nonce bits in pages, snapshots of
  commits, and the choice between open, reduce and close that the code makes
  from the position at settlement.
- **DarkPool** keeps intents and responses as sequences, since ids count up;
  the clock, the age of the mark and liquidations move between post, response
  and acceptance.
- **TradingVault** has one vault, whose row the engine treats as any trader's.
  Its worth is computed by walking the registry with the marks of the moment.
- **InsuranceFund** has the clock as a variable and a history variable
  `payments` (time, amount, cap in force), over which the daily properties
  are stated. `vault_open` stands for the vault's gates.
- **OracleRouter** represents the clock by the two differences the program
  takes (age of a quote, time since the breaker tripped) and has a history
  variable for the last jump (`since_jump`, `good_since_jump`). Price sources
  are what a quote says of itself. The engine's answer is a choice: it may
  refuse. **OracleKeeper** composes it with a world of true prices and an
  operator that reports them.
- **SurTimelock** keeps per operation the time it was queued and its ETA, and
  the history of dispatches. Dispatching calls another program, which may
  refuse. **Embargo** is the promise: act once per announcement, within a
  window after it.
- **Liquidator** and **AutoDeleveraging** contain the engine's actions.
  `sighting` is what the ADL operator read and has not yet submitted.
  **RiskControls** interleaves them with fills and prices.
- **Interfaces** has every instruction's accounts in order, with privileges
  and derivations, as the types give them to clients; **Programs** has the
  same instructions from the handlers' side: the accounts they derive or
  compare, those they assign, the list of metas they build for each call. An
  instruction passes when the sender's list satisfies the demanded one.
  **Execution** is what Anchor and the runtime do with both: order, count and
  privileges of a list, no privilege beyond the caller's, no re-entry, and the
  write-back of a caller's copies after the calls it made. **WebClient** and
  **SdkClient** are the lists the clients really put together.
- **Sealevel** runs such transactions side by side under account locks, each
  on the copies it started from; **SerialLedger** runs one at a time, which is
  what every other module here assumes when it makes an instruction an atomic
  step.

## Runs

| Run | Instance | What it shows |
|---|---|---|
| `vault` | 3 traders, 2 interchangeable keys, values to 2, limits {0, 1}; 542,016 states | the vault's totals, solvency, payability, refinement of `Custody`, pauses, revocation, hand-over |
| `engine` | 2 traders, 1 market, sizes to ±2, prices {2, 4}, initial 3/4, maintenance 2/4; 73,917 states | positions, margins, open interest and money over every order of opens, averages, flips, reductions, closes and liquidations; the owner's instructions and the vault's gates between trades |
| `fund` | 2 markets, days of 2 steps, 3 days, 3 rewards; 1,647,360 states | the counters and the cap over any 24 hours |
| `timelock_queue` | 2 operations, 2 owners, delays 1 and 2, grace 1; 245,472 states | the timelock implements `Embargo` |
| `oracle` | 2 feeds, 1 breaker, prices {10, 12, 14}, limits 20% and 40%; 191,776 states | the engine mirrors, moves gently, and waits after a jump |
| `oracle_recovers` | 2 feeds and a moving world, fair operator; 4,626 states | recovery without the owner |
| `risk` | 1 trader, a keeper, an ADL operator, 1 liquidation, 1 ADL event; 244,224 states | liquidations go through; deleveraging on a matching reading only shrinks |
| `collateral` | 2 traders with 2 tokens each, 2 prices, 2 haircuts, width 3; 365,200 states | escrow, records and the vault's credit agree; tokens leave with the trader's own credit, and can |
| `settlement` | 2 traders, 5 signed orders, 2 commits, 1 change by the owner, time to 3; 44,604 states | one settlement per nonce, both legs or none, signed limits and committed terms |
| `dark_pool` | 2 agents, 2 intents, 2 responses, 1 change by the owner, time to 3; 504,790 states | one agreement per intent, on its terms and fee; reputations |
| `trading_vault` | 2 depositors, a manager, 2 markets with room for 1, 2 units of time; 110,016 states | shares, fees, high water mark, drawdown pause, leaving |
| `runtime` | every instruction of 11 programs from the web client, the calling ones again from the SDK, the web hooks' transactions, any two side by side; 51,714 states | account lists satisfy every program called, no write is lost, the result is serial |

The bounds, and why the interesting cases fit in them:

- *Widths.* `MaxU64` is 2 to 40 and is reached in `vault` (a credit or a cap
  at the end of the counter), `collateral` and `fund` (bad debt); in the
  trading runs it is large enough that money never meets it, and there the
  engine's proofs stand for all widths.
- *Vault.* With three rows a transfer has a payer, a payee and a bystander;
  amounts of two split over both columns.
- *Engine.* With margins of 3/4 of notionals of 2, 4, 6 and 8, requirements
  round (3/2 becomes 1) and averages do (entry 3). A short of two entered at
  2 loses 4 on a margin of 3: bad debt. The pool begins with 1 and can be
  short of a winner's profit. Size steps up to twice the limit allow a flip
  from one limit to the other. `SIZE_PRECISION` is 1 there; the proofs
  cover every precision. Trades go to any depth while no owner's change is
  pending; pauses, hand-overs, revocations, funding and a closed vault gate
  come one at a time and with at most one unit held (`Shallow` and `Changes`
  in `MCPerpEngine`), which is where they meet an open position.
- *Fund.* Three rewards in a day of two steps over three days put payments
  on both sides of a window's edge; the caps change between 0 (none), 1 and 2,
  so that a window can be empty, half full and full when they do.
- *Oracle.* Of 10, 12 and 14, neighbours are within 20%, the outer two
  only within 40%; cooldowns to 3 and a counter saturating at 3 with 2
  required let either be the last to agree. Two feeds interleave on one
  breaker.
- *Timelock.* The clock runs to 5 with delays to 2 and a grace period of 1,
  so that an entry can expire, be cancelled, queued again under another
  delay, and dispatched by another owner.
- *Risk.* One position is enough, since keeper and ADL operator compete for
  the same one; two prices make it a winner, a loser within its margin, and
  bad debt. Counters end at 1 (`MaxLiquidations`, `MaxAdlEvents`).
- *Collateral.* Prices of 2 and 3 per unit of 2 and haircuts of 2/4 and 3/4
  make credits round (one token is worth 0 or 1 of credit, two are worth 1 or
  2), so a top-up differs from a first deposit and half of a record can be
  withdrawn for no debit; two traders and an operator who moves credit between rows
  separate tokens from credit as far as the vault allows.
- *Settlement.* The five signed orders are an opening pair, a shorter-lived
  order with the same nonce as one of them, and a pair that closes or flips
  what the first opened, with nonces in the next page of two bits; two commits
  give each side a snapshot, and the single change by the owner falls before,
  between or after them.
- *Dark pool.* Two intents and two responses give a race for one intent, two
  intents that flip each other's positions, and a response left over; time to
  3 passes every expiry.
- *Trading vault.* Shares are minted at prices above and below the first one;
  a second market does not fit the registry; two units of time put a fee due on
  either side of a fee collected, and a cooldown on either side of its end.
- *Runtime.* Conflicts between transactions are pairwise, so two lanes are
  enough. What an instruction computes is abstracted to "writes a new
  version"; what is exact is which account it writes, when and from what copy.

Other bounds are named constants: `MaxFunds`, `MaxNow`, `MaxPayments`,
`MaxDispatches`, `MAX_COUNT`, `MaxCommits`, `MaxIntents`, `MaxResponses`,
`MaxChanges`, `LastTime`. `fund` turns deadlock checking off because a clock
at `MaxNow` may leave nothing to do, `runtime` because every sender has one
transaction. The venue runs and `risk` begin after a routine deployment
(market listed, pool funded, authorities authorized), `engine` there and at its
first instruction; the programs' own `Spec`s reach these states too, but
from there the trades go deeper. `vault` (keys) and `runtime` (lanes) use
symmetry, where no property is temporal beyond one step.

Most invariants are conjunctions of named parts (`VaultInv`, `EngineInv`,
`ManagerInv`, `SettlementInv`, ...), each part stated and commented in its
module: type correctness first, then the sums, then what ties the program's
books to another program's.

## Fairness

On chain nothing has to happen: nobody is obliged to send an instruction, so
the programs' own specifications state no fairness and no liveness. Only
`OracleKeeper` does. It assumes weak fairness of the operator (configuring,
authorizing and pushing each feed) and of the passage of time, since
`docs/PHASES.md:77` plans the oracle keeper as a process that pushes
periodically; nothing is assumed of the owner, of the world, or of a reset.
Elsewhere progress is stated as what a user *can* do. Each such property says
that the whole guard of the instruction holds, the guards of its calls included,
as a predicate of the state on which the action itself is built:
`KeeperMayLiquidate` in `CanAlwaysLiquidate` (part of `RiskInv`),
`Withdrawable` in `RedeemableWhenCovered`, `WithdrawAllowed` in
`HoldersCanLeave`. They say what `ENABLED` would, in a form the provers can
work with.

## Proofs

TLAPS checks every theorem for all values of the constants under the named
assumptions: `LedgerAssumption` (a number of accounts, a width),
`VaultAssumption`, `CollateralAssumption`, `EngineAssumption`,
`FundAssumption`, `SettlementAssumption`, `DarkPoolAssumption`,
`TradingVaultAssumption`, `VenueAssumption`, `LiquidatorAssumption`,
`AdlAssumption`, `TimelockAssumption`, `OracleAssumption` (types of the
parameters; nobody can sign for the null key; the clock starts a day after zero,
that of the venues at one; a performance fee is at most all of the gain, since
`vault_admin.rs:58` admits 30%; the cooldowns an owner sets have a longest one),
and some that say something:

- `OpenInterestFits`: the listed size limit times the number of traders fits
  in a u64. Open interest is added with saturation, and without this
  assumption the counters could lose updates.
- `OneToOne`: operators pair each feed with one market. The program does not
  check this (hazard at `push_price.rs:61`).
- `WellDeclared`: a transaction writes only accounts it has listed as
  writable. This is what `RuntimeInv` of the run `runtime` finds of every
  instruction of the repository and every list of its clients. For
  `OnlyTheOvertakenFail` also: the checks turn down exactly the transactions
  built from an outdated configuration.
- `SupplyFits` (for `HoldersCanAlwaysLeave`) and `Supply(ledger) <= MaxU64`
  (for `LiquidationAlwaysOpen`): all USDC of the vault fit in one u64, for the
  former also a management fee on all of it over the whole time. The first
  state's supply is enough, since no step of these modules adds to it.
- `LossesFit` (for `LiquidationAlwaysOpen`): no position's loss at the mark is
  below what an i64 holds; otherwise `liquidate_position.rs:123` fails.

| Module | Theorems | Argument |
|---|---|---|
| `VaultLedgerProofs` | lemmas on `SumTo` (type, bounds, change of one or two entries) and on rows: a transfer keeps their types and both column sums | induction as the least counterexample of a set of numbers, since the library's induction rules take an operator; case split on payer, payee and the deposit-first split |
| `PerpVaultProofs` | `VaultTypes`, `VaultConserves`, `VaultSolvent`, `VaultBooks`, `VaultPays`, `PauseFreezes`, `RevocationProtects`, `OwnershipTwoSteps`, `OwnersWordHolds`, `VaultImplementsCustody`; for the collateral manager `ManagerBooks`, `CreditComesBack`, `TermsStand`, `CoveredTradersLeave`, `ManagerUsesTheVault` | invariant `TypeOK /\ Conservation /\ Solvent`; a row is at most the column's sum, hence payable; each step maps to a step of `Custody` or a stutter. The manager's steps are steps of the vault or leave it alone |
| `PerpEngineProofs` | `EngineTypes`, `OpenInterestIsExact`, `MarginAlwaysRequired`, `PositionsAlwaysListed`, `EngineBooks`, `AlwaysSafeAtEntry`, `OnlyLosersAreLiquidated`, `TradesAlwaysConserve`, `LiabilityIsLimited`, `PauseAlwaysFreezes`, `PoolAlwaysPaysOnlyProfits`, `LegsAreInstructions`; for the risk controls `RiskControlsTyped`, `FreshReadingsReduce`, `LiquidationAlwaysOpen`, `DeployedRiskControls` | books and legs, below; what the liquidator and the deleveraging add, below |
| `InsuranceFundProofs` | `FundBooks`, `NeverMoreThanTwiceTheCap` | windows of the daily counter, below |
| `VenueProofs` | `SettlementBooks`, `TradesAlwaysMatch`, `SignedTermsAlwaysKept`, `NothingIsStranded`, `CommitsAlwaysBind`, `DeployedSettlement`; `DarkBooks`, `ReputationsEarned`, `AgreementsAlwaysHold`, `FeesAlwaysAsPosted`, `BothSidesAlways`, `DeployedDarkPool`; `VaultBooksKept`, `StayersNeverDiluted`, `ChargesOnlyRise`, `CooldownsHold`, `HoldersCanAlwaysLeave`, `DeployedTradingVault` | the engine's invariant carried through two fills and two fees, and what each venue adds to it, below |
| `OracleRouterProofs` | `OracleTypes`, `EngineAlwaysMirrors`, `OracleBooks`, `EngineMovesGently`, `BreakerKeepsQuiet` | the breaker's fields are related to the history: while active they count from the last jump |
| `SurTimelockProofs` | `TimelockTypes`, `TimelockImplementsEmbargo` | invariant: a queue entry lies between `MIN_DELAY` and `MAX_DELAY` of its announcement, whatever the delay has become since |
| `SealevelProofs` | `SideBySideIsSerial`, `OnlyTheOvertakenFail` | invariant: a running transaction holds the locks of its list, and what it copied is still what the accounts hold; so committing it is running it now, alone, and the ledger grows by what it meant to write |

**The engine.** Its invariant is `TypeOK`, `MarketsSound`,
`OpenInterestExact`, `MarginIsRequired` and `PositionsListed` together. None is
inductive alone. The counters are updated by `saturating_sub` and
`saturating_add`; that neither saturates needs the sums over the positions
(exactness before the step), the size limit per position (`PositionsListed`)
and `OpenInterestFits`. That a position's margin is exactly the requirement
needs the entry price and the market's parameters to be those it was computed
from, and a market cannot be listed twice (`MarketsSound`). `SafeAtEntry` then
follows by arithmetic: `add_market` requires the maintenance ratio below the
initial one, and floor division is monotone. `LimitedLiability` follows because
what a fill locks is the requirement of the new position minus a margin that is
already there. `TradesConserve` and `PauseFreezes` of the engine are proved and
have no run.

The steps are proved on *books*, the records that `TradeRouting` passes from
call to call: a lemma says what one open, reduce or close does to a sound book
(`LegStep`), another what two of them in a row do (`PairStep`).
`LegsAreInstructions` proves that a leg on the current book is one of the
engine's own three instructions, so the same lemmas serve the engine and the
venues that route fills to it.

`OnlyLosersLiquidatable` compares equity at the mark with the maintenance
margin: with a margin of at least the notional at entry times the initial
ratio, both rounded down, a position whose value has not fallen is above a
maintenance requirement that is at most half of its notional.
`PoolPaysOnlyProfits` is an account of the pool: for every instruction, what
the pool's row loses beyond the margins it no longer has to hold is what the
trader's row and margins gained (`PoolSurplus` and `Wealth` move by opposite
amounts or the pool gains), with flips, bad debt and keeper rewards as cases of
their own.

**The fund.** The program keeps one counter and the start of one window, and
`TwiceTheCap` speaks of every stretch of 24 hours in the history. The invariant
finds in the history the windows the program has forgotten: each payment
belongs to a window some payment began, whose total the cap in force at that
payment covers (`Covered`), and the window before it was covered too and began
a day or more earlier (`Follows`). Any 24 hours then meet at most two windows,
and the later ones' caps bound them.

**The settlement.** `SettlementOnAnyEngine` starts from any engine whose books
are sound, not only an empty one; `DeployedSettlement` draws the conclusion for
the initial states of the run. The invariant adds to the engine's that a
nonce's bit is set exactly when it was settled once, and that a snapshot is
either absent or complete. A settlement is then two fees and two legs on a
chain of books: sizes cancel (`TradesMatch`), each side is entered at a price
within its limit because the average of prices within a limit is within it
(`SignedTermsKept`), and of what the pool keeps (`NothingStranded`) one leg
accounts for one position. Fees are floors of products, and the sum of two
floors is at most the floor of the sum, which `CommitsBind` needs to compare
two fees with one committed rate.

**The dark pool.** `DarkPoolOnAnyEngine` starts from any engine whose books are
sound. The invariant is the engine's with `DarkTypeOK`, `FilledOnce` and
`ReputationEarned`, which two more facts make inductive. Records refer to each
other by number, so an acceptance must find that its response names an intent
that exists and another agent than the intent's (`Counterparties`); and a record
once made keeps what identifies it and its terms (`RecordsStay`), so a settled
deal can be compared with what was posted. A reputation is a sum over all
records, and each instruction changes the terms of exactly the agents it names:
one lemma per instruction says which records count differently afterwards
(`IntentAdded`, `ResponseDecided`, `DealRecorded`, ...); the volume is followed
up to its saturation. The money of an acceptance is two opening legs and two
fees, by the same lemmas as the settlement's.

**The trading vault.** `VaultOnAnyEngine` starts from any sound engine in which
the vault's row holds no position. The invariant is the engine's with the types,
`StampsPast`, `SharesAddUp`, `RegistryComplete` and four facts about the past.
Fees are paid up to the last accrual (`PaidUpTo`): accruals over consecutive
stretches add up to at most one over the whole, though each rounds. The mark is
at least every worth on which a performance fee was taken (`MarkCovers`). Before
creation there is nothing (`NothingYet`). After a breach the vault stays paused
under the breach's own stamp until a cooldown is over (`BreakerHolds`). That the
registry names every market with a position makes the worth the program computes
the worth of all positions. `StayersNotDiluted` is then about two floors: the
shares issued and the payment for shares redeemed both round against the one who
comes or goes, so worth per share of the others falls by no more than the fees.
`HoldersCanLeave` goes through the checks of `withdraw` one by one; widths are
why it needs `SupplyFits`.

**The risk controls.** `RiskOnAnyEngine` starts from any sound engine. The
invariant adds the types of both programs and that a keeper's count never
exceeds the total, so the total reaches its width first. Four things could stop
a liquidation besides the flags, and each is excluded on its own: a check of the
engine (`PositionsListed` and `OnlyLosersLiquidatable`: the market is listed and
the result is a loss), a width (`LossesFit` and the supply), a payment (what is
left at the mark is at most the margin, which is part of what the pool holds for
all positions; a bounty is at most what the fund's row holds), a counter. That a
deleveraging on a matching reading moves no money (`ShrinkingIsFree`) is
`MarginIsRequired` again: the position already holds the margin of its old size,
the smaller one needs no more, so `open_position` locks nothing and, as always,
returns nothing.

**Covered credit.** `CoveredTradersLeave` needs all of the manager's
books: taking out everything debits exactly the recorded credit (`DebitBounds`),
one trader's credit is at most all of it, which the vault has on record
(`CreditsBacked`), one trader's tokens are at most the escrow, and a token
that was never listed has no records.

**What proving corrected.** These statements held on their small instances and
were false or unprovable in general; they are now stated with the condition they
need.

- `PoolPaysOnlyProfits` needs an insurance balance to be configured and
  maintenance margins of at most half the notional: otherwise the pool may be
  named as the insurer, or a winner be liquidated.
- `NothingStranded` needs to grant the rounding of the average entry: it rounds
  down, so a fill that grows a position may need less margin than it held, and
  `open_position` returns nothing. It and `FeesAsCommitted` need the fee
  recipient not to be the pool.
- The clock of the settlement must be positive, because a commit time of zero
  means absent.
- `FilledOnce` now also says that the numbers by which intents and responses
  name each other are numbers of existing records.
- `FeesAsPosted` leaves out fee recipients that are one of the traders or the
  pool, whose rows change for other reasons in the same step.
- `StayersNotDiluted` was false for a manager who deposits into the vault: the
  fees paid were read off the manager's row. They are now what the step bills.
- `HoldersCanLeave` and `CanAlwaysLiquidate` hold up to the widths named above.

The collateral manager's invariant says that after any number of deposits and
partial withdrawals a record holds credit only where it holds tokens. A
withdrawal debits `credit * amount / total` rounded down, so what is needed is
that this is at most the credit, and the whole of it when the amount is the
total; `DebitBounds` proves both for every value.

Only model-checked: `Recovers`, which is liveness under fairness and beyond the
prover, and that the account lists of this repository satisfy what
`SealevelProofs` assumes of them, which the run `runtime` computes.

## Where code and text differ

Noticed while translating. The models follow the code; no run is spent on
these, because a property would only restate the line.

*Vault, engine, fund, oracle, deleveraging, timelock.*

1. `perp_vault/src/state.rs:55` says collateral credit must not be
   withdrawable as USDC. `internal_transfer` (`internal_transfer.rs:92`) takes
   USDC first from the pool's row too: margin locked out of credit can come
   back as USDC, at one price, without any profit.
2. `insurance_fund/src/state.rs:26` calls the daily cap a rolling 24h cap. The
   window tumbles (`reward.rs:90`). `TwiceTheCap` is what holds.
3. `docs/AUDIT-REPORT.md:69` counts on `reset_circuit_breaker` against a
   breaker that stays tripped. The reset (`admin.rs:93`) keeps the reference
   price (`push_price.rs:112`), so after a lasting move beyond the limit the
   next honest push trips it again. `Recovers` is what holds.
4. `auto_deleveraging/src/cpi_util.rs:47` says the engine realizes the profit
   of a forced reduction. `open_position` (`open_position.rs:162`) computes it
   for its event and transfers nothing; the freed margin stays in the pool.
5. `perp_vault/src/state.rs:84` says the Operator account is closed on revoke
   (it stays, with a flag, which is what `authorized` models);
   `perp_engine/src/state.rs:31` says only `oracle_router` may push prices (any
   operator can); `sur_timelock/src/state.rs:19` says `setup_complete` blocks
   the pausable targets (the setter never reads it).

*Collateral manager.* `deposit.rs:129` says a top-up inherits the snapshot of
the first deposit; the haircut recorded is the first one's, the credit granted
is the current one's. A withdrawal of dust may debit no credit; the remaining
record keeps it.

*Settlement.* The engine market is an account the operator passes, not tied to
the orders' `market_id`. An order's own delay is not honoured when it is the
earlier of the two commits. Spread tier 1 is reached by no imbalance, and
balanced interest puts every long taker into tier 2. With a minimum delay of 0 the
operator may leave the snapshots out. A fee recipient who is a party blocks
the settlement, because the vault refuses a transfer to oneself.

*Dark pool.* Freshness (`accept_and_settle.rs`) dates the engine's mark, which
the agreed price is then not compared with. The Expired statuses are never
set. A losing response stays pending and cancelling it costs reputation.
Cancelling works while paused.

*Trading vault.* `manager_trade.rs:49` says the engine validates the manager's
market id; nothing ties it to `engine_market`. A deposit raises the high water
mark without charging the gain below it, the mark survives redemption of all
shares, and a fee that rounds to zero still stamps its clock. The manager may
undo an emergency pause at once. What `set_operator` writes is never read. A
withdrawal may have to wait for liquidity that open positions hold.

*Clients.* `clients/web/idls/*.json` is an older copy of `idl/*.json`:
`post_intent` has one argument less, `post_response` too, `accept_and_settle`
lacks the freshness account, the engine lacks two instructions,
`bootstrap_engine_pool` lists its configuration read-only. `use-post-intent`
reads the next id and sends later: the program rejects the second of two. The
SDK's liquidation view uses the notional at entry, the engine that at the
mark. `clients/api/src/indexer.ts:10` promises no gaps; a backlog of more than
one page of signatures is skipped.

*Deployment.* `scripts/devnet-init.ts` calls itself idempotent; running it
again overwrites live marks, and it never initializes the freshness
configuration, without which `accept_and_settle` cannot be called.

## Not modelled

- `clients/api`: the indexer's cursor loop (overlapping ticks, a crash between
  projection and cursor) is planned; its projection is a TODO in the code, and
  points are SQL sums.
- `clients/web` beyond the transactions its hooks build: pages, polling and
  formatting keep no state the protocol depends on. `clients/sdk` beyond
  derivations: pure views.
- `scripts`: a linear sequence of transactions run by one person; its result
  is the initial states of the venue modules. Tests and docs were read as
  references.
- In the modelled programs: rent and account sizes, events and error codes,
  names, timestamps and index prices that are stored and never read, the
  counters nothing depends on. `Interfaces` and `Programs` model which
  accounts an instruction touches; the program modules what it computes. In
  the latter every account of a call is the canonical one except where the
  handler does not bind it (reward rows, insurance rows, feed and market
  pairs), where the model lets the caller choose.
- Solana's own consensus, forks and fees: a transaction that is confirmed has
  happened.

## Plan

Done: all eleven programs, their interfaces and clients' transactions, the
runtime they rely on, and a theorem for every property of the runs except
`Recovers`. Next, in this order:

1. The engine as a user of `PerpVault` rather than of its rows (a refinement
   of `vault_gate`).
2. An abstract specification of the dark pool: a two-sided agreement, made
   once.
3. `Indexer`: the cursor loop with pages of signatures, crashes and retries.
