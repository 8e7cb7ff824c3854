------------------------------ MODULE Programs ------------------------------
(***************************************************************************)
(* The instruction handlers of the eleven programs as far as accounts go.  *)
(* An instruction carries the list its sender put together (accounts), the *)
(* list the program insists on (demands: the same interface, with the      *)
(* addresses the handler derives or compares instead of the sender's), the *)
(* accounts Anchor keeps a writable copy of (typed), those the handler may *)
(* assign, and the calls it may make to other programs, each with the list *)
(* of metas the handler builds for it.                                     *)
(***************************************************************************)
EXTENDS Interfaces, Integers, Sequences


Ix(program, name, accounts, demands, assigns, calls) ==
  [program |-> program, name |-> name, accounts |-> accounts,
   demands |-> demands, typed |-> Writable(demands), assigns |-> assigns, calls |-> calls]

\* An instruction whose handler derives nothing beyond its interface.
Plain(program, name, accounts, assigns) ==
  Ix(program, name, accounts, accounts, assigns, <<>>)

\* Owner-gated instructions that assign one configuration account.
Owned(program, account, lists) ==
  {Plain(program, name, lists[name], {account}) : name \in DOMAIN lists}

Call(ix, passes) == [ix |-> ix, passes |-> passes]

-----------------------------------------------------------------------------
(* SPL token transfers, as the vault and the collateral manager use them.  *)
TokenTransfer(from, to, authority) ==
  LET list == <<Rw(from), Rw(to), Sg(authority)>>
  IN  Call(Plain("token", "transfer", list, {from, to}), list)

-----------------------------------------------------------------------------
\* Anchor has the token program set up a token account it creates.
TokenAccountInit(account) ==
  LET list == <<Rw(account)>>
  IN  Call(Plain("token", "initializeAccount", list, {account}), list)

-----------------------------------------------------------------------------
(* perp_vault *)
VaultAdmin(x) ==
  Owned("perp_vault", vault_VaultConfig,
    [pause |-> vault_pause(x), unpause |-> vault_unpause(x),
     setDepositCap |-> vault_setDepositCap(x),
     setMaxWithdrawalPerTx |-> vault_setMaxWithdrawalPerTx(x),
     setMaxOperatorTransferPerTx |-> vault_setMaxOperatorTransferPerTx(x),
     transferOwnership |-> vault_transferOwnership(x),
     acceptOwnership |-> vault_acceptOwnership(x)])
  \cup {Ix("perp_vault", "initialize", vault_initialize(x), vault_initialize(x),
           {vault_VaultConfig},
           <<TokenAccountInit(vault_UsdcVault)>>)}

VaultSetOperator(x) ==
  Plain("perp_vault", "setOperator", vault_setOperator(x), {vault_Operator(x.operator)})

VaultDeposit(x) ==
  Ix("perp_vault", "deposit", vault_deposit(x),
     vault_deposit([x EXCEPT !.usdcVault = vault_UsdcVault]),
     {vault_VaultConfig, vault_Balance(x.depositor)},
     <<TokenTransfer(x.userUsdc, x.usdcVault, x.depositor)>>)

VaultWithdraw(x) ==
  Ix("perp_vault", "withdraw", vault_withdraw(x),
     vault_withdraw([x EXCEPT !.usdcVault = vault_UsdcVault]),
     {vault_VaultConfig, vault_Balance(x.withdrawer)},
     <<TokenTransfer(x.usdcVault, x.userUsdc, vault_VaultAuthority)>>)

InternalTransfer(x) ==
  Plain("perp_vault", "internalTransfer", vault_internalTransfer(x),
        {vault_Balance(x.fromBalance_trader), vault_Balance(x.toBalance_trader)})

CollateralOp(name, x) ==
  Plain("perp_vault", name,
        IF name = "creditCollateral" THEN vault_creditCollateral(x) ELSE vault_debitCollateral(x),
        {vault_VaultConfig, vault_Balance(x.trader)})

VaultInstructions(x) ==
  VaultAdmin(x) \cup {VaultSetOperator(x), VaultDeposit(x), VaultWithdraw(x), InternalTransfer(x),
                      CollateralOp("creditCollateral", x), CollateralOp("debitCollateral", x)}

\* The trader a balance account belongs to.
TraderOf(balance) == balance[4][1]

\* The list every program builds by hand to move money between two vault balances.
VaultTransfer(config, operatorAccount, from, to, authority) ==
  Call(InternalTransfer([operator |-> authority, fromBalance_trader |-> TraderOf(from),
                         toBalance_trader |-> TraderOf(to)]),
       <<Ro(config), Ro(operatorAccount), Rw(from), Rw(to), Sg(authority)>>)

VaultCollateral(name, config, operatorAccount, balance, trader, authority) ==
  Call(CollateralOp(name, [operator |-> authority, trader |-> trader]),
       <<Rw(config), Ro(operatorAccount), Rw(balance), Ro(trader), RwSg(authority),
         Ro(SystemProgram)>>)

BootstrapDeposit(x, pool, authority) ==
  Call(VaultDeposit([depositor |-> authority, userUsdc |-> x.authorityUsdc,
                     usdcVault |-> x.usdcVault]),
       <<Rw(x.vaultConfig), Rw(x.usdcVault), Rw(x.authorityUsdc), Rw(pool), RwSg(authority),
         Ro(x.tokenProgram), Ro(SystemProgram)>>)

-----------------------------------------------------------------------------
(* perp_engine *)
Position(marketId, trader) == Pda("perp_engine", "position", <<marketId, trader>>)

\* The accounts a trade or a liquidation forwards for the engine's own vault transfers.
VaultWiring(x, balances) ==
  <<Ro(x.engineAuthority), Ro(x.perpVaultProgram), Ro(x.vaultConfig), Ro(x.engineVaultOperator)>>
    \o [i \in DOMAIN balances |-> Rw(balances[i])]

\* What the engine derives or compares: its own accounts by their seeds, the
\* authority by assert_engine_authority, the trader's balance by
\* assert_canonical_balance, the vault program and the pool with its configuration.
EngineChecked(x) ==
  [x EXCEPT !.market = engine_Market(x.marketId), !.position = Position(x.marketId, x.trader),
            !.engineAuthority = engine_EngineAuthority,
            !.perpVaultProgram = Program("perp_vault"),
            !.traderBalance = vault_Balance(x.trader),
            !.enginePoolBalance = vault_Balance(engine_EngineAuthority)]

EngineTransfer(x, from, to) ==
  VaultTransfer(x.vaultConfig, x.engineVaultOperator, from, to, x.engineAuthority)

EngineTrade(name, list(_), x, calls) ==
  LET all(y) == list(y) \o VaultWiring(y, <<y.traderBalance, y.enginePoolBalance>>)
  IN  Ix("perp_engine", name, all(x), all(EngineChecked(x)), {x.market, x.position}, calls)

OpenPosition(x) ==
  EngineTrade("openPosition", engine_openPosition, x,
    <<EngineTransfer(x, x.traderBalance, x.enginePoolBalance)>>)

ReducePosition(x) ==
  EngineTrade("reducePosition", engine_reducePosition, x,
    <<EngineTransfer(x, x.enginePoolBalance, x.traderBalance),
      EngineTransfer(x, x.traderBalance, x.enginePoolBalance)>>)

ClosePosition(x) ==
  EngineTrade("closePosition", engine_closePosition, x,
    <<EngineTransfer(x, x.enginePoolBalance, x.traderBalance),
      EngineTransfer(x, x.traderBalance, x.enginePoolBalance)>>)

\* Keeper reward from the pool or, with bad debt, from the fund; the rest to the fund.
LiquidatePosition(x) ==
  LET all(y) == engine_liquidatePosition(y) \o
                VaultWiring(y, <<y.keeperBalance, y.enginePoolBalance, y.insuranceFundBalance>>)
  IN  Ix("perp_engine", "liquidatePosition", all(x), all(EngineChecked(x)),
         {x.market, x.position},
         <<EngineTransfer(x, x.insuranceFundBalance, x.keeperBalance),
           EngineTransfer(x, x.enginePoolBalance, x.keeperBalance),
           EngineTransfer(x, x.enginePoolBalance, x.insuranceFundBalance)>>)

UpdateMarkPrice(x) ==
  Ix("perp_engine", "updateMarkPrice", engine_updateMarkPrice(x),
     engine_updateMarkPrice([x EXCEPT !.market = engine_Market(x.marketId)]), {x.market}, <<>>)

BootstrapEnginePool(x) ==
  Ix("perp_engine", "bootstrapEnginePool", engine_bootstrapEnginePool(x),
     engine_bootstrapEnginePool([x EXCEPT !.enginePoolBalance = vault_Balance(engine_EngineAuthority),
                                      !.perpVaultProgram = Program("perp_vault")]),
     {engine_EngineConfig}, <<BootstrapDeposit(x, x.enginePoolBalance, engine_EngineAuthority)>>)

EngineAdmin(x) ==
  Owned("perp_engine", engine_EngineConfig,
    [pause |-> engine_pause(x), unpause |-> engine_unpause(x),
     initialize |-> engine_initialize(x),
     setInsuranceFundBalance |-> engine_setInsuranceFundBalance(x),
     transferOwnership |-> engine_transferOwnership(x),
     acceptOwnership |-> engine_acceptOwnership(x)])
  \cup {Plain("perp_engine", "setOperator", engine_setOperator(x), {engine_Operator(x.operator)}),
        Plain("perp_engine", "addMarket", engine_addMarket(x), {engine_Market(x.marketId)})}

EngineInstructions(x) ==
  EngineAdmin(x) \cup {OpenPosition(x), ReducePosition(x), ClosePosition(x), LiquidatePosition(x),
                       UpdateMarkPrice(x), BootstrapEnginePool(x)}

\* The lists the settlement programs build by hand for an engine trade: the
\* position of a trader, margin from or to its balance, on behalf of an operator.
EngineOperator(x, trader, position, balance, operator) ==
  [x EXCEPT !.trader = trader, !.position = position, !.traderBalance = balance,
            !.operator = operator, !.market = x.engineMarket]

OpenMetas(x, y) ==
  <<Ro(x.engineConfig), Rw(x.engineMarket), Rw(y.position), Ro(y.trader),
    Ro(x.engineOperatorAccount), RwSg(y.operator), Ro(SystemProgram),
    Ro(x.engineAuthority), Ro(x.perpVaultProgram), Ro(x.vaultConfig), Ro(x.engineVaultOperator),
    Rw(y.traderBalance), Rw(x.enginePoolBalance)>>

\* With the market passed on as read-only.
ReduceMetasReadOnly(x, y) ==
  <<Ro(x.engineConfig), Ro(x.engineMarket), Rw(y.position), Ro(x.engineOperatorAccount),
    Sg(y.operator), Ro(x.engineAuthority), Ro(x.perpVaultProgram), Ro(x.vaultConfig),
    Ro(x.engineVaultOperator), Rw(y.traderBalance), Rw(x.enginePoolBalance)>>

ReduceMetas(x, y) ==
  <<Ro(x.engineConfig), Rw(x.engineMarket), Rw(y.position), Ro(x.engineOperatorAccount),
    Sg(y.operator), Ro(x.engineAuthority), Ro(x.perpVaultProgram), Ro(x.vaultConfig),
    Ro(x.engineVaultOperator), Rw(y.traderBalance), Rw(x.enginePoolBalance)>>

RouteEngineTrade(x, trader, position, balance, operator) ==
  LET y == EngineOperator(x, trader, position, balance, operator)
  IN  <<Call(OpenPosition(y), OpenMetas(x, y)), Call(ReducePosition(y), ReduceMetas(x, y)),
        Call(ClosePosition(y), ReduceMetas(x, y))>>

-----------------------------------------------------------------------------
(* oracle_router *)
PushPrice(x) ==
  Ix("oracle_router", "pushPrice", oracle_pushPrice(x),
     oracle_pushPrice([x EXCEPT !.feed = oracle_Feed(x.marketId)]), {oracle_OracleConfig, x.feed},
     <<Call(UpdateMarkPrice([x EXCEPT !.market = x.engineMarket,
                             !.operator = oracle_OracleAuthority]),
            <<Ro(x.engineConfig), Rw(x.engineMarket), Ro(x.engineOperatorAccount),
              Sg(oracle_OracleAuthority)>>)>>)

OracleAdmin(x) ==
  Owned("oracle_router", oracle_OracleConfig,
    [initialize |-> oracle_initialize(x), resetCircuitBreaker |-> oracle_resetCircuitBreaker(x),
     setCircuitBreakerParams |-> oracle_setCircuitBreakerParams(x),
     transferOwnership |-> oracle_transferOwnership(x),
     acceptOwnership |-> oracle_acceptOwnership(x)])

OracleFeeds(x) ==
  {Plain("oracle_router", "setOperator", oracle_setOperator(x), {oracle_Operator(x.operator)}),
   Plain("oracle_router", "configureFeed", oracle_configureFeed(x), {oracle_Feed(x.marketId)}),
   Plain("oracle_router", "deactivateFeed", oracle_deactivateFeed(x), {x.feed})}

OracleInstructions(x) == OracleAdmin(x) \cup OracleFeeds(x) \cup {PushPrice(x)}

-----------------------------------------------------------------------------
(* liquidator *)
Liquidate(x) ==
  LET sent == VaultWiring(x, <<x.keeperBalance, x.enginePoolBalance, x.insuranceFundBalance>>)
      \* the flags are set again from the position in the list
      forwarded == [i \in DOMAIN sent |-> IF i \in 5..7 THEN Rw(sent[i].key) ELSE Ro(sent[i].key)]
      list == liquidator_liquidate(x) \o sent
  IN  Ix("liquidator", "liquidate", list, list,
         {liquidator_LiquidatorConfig, liquidator_Keeper(x.keeper)},
         <<Call(LiquidatePosition([x EXCEPT !.market = x.engineMarket,
                                            !.position = x.enginePosition,
                                            !.operator = liquidator_LiquidatorAuthority]),
                <<Ro(x.engineConfig), Rw(x.engineMarket), Rw(x.enginePosition),
                  Ro(x.engineOperatorAccount),
                    Sg(liquidator_LiquidatorAuthority)>> \o forwarded)>>)

LiquidatorInstructions(x) ==
  Owned("liquidator", liquidator_LiquidatorConfig,
    [initialize |-> liquidator_initialize(x), pause |-> liquidator_pause(x),
     unpause |-> liquidator_unpause(x),
     transferOwnership |-> liquidator_transferOwnership(x),
     acceptOwnership |-> liquidator_acceptOwnership(x)])
  \cup {Liquidate(x)}

-----------------------------------------------------------------------------
(* auto_deleveraging *)
ExecuteAdl(x) ==
  LET sent == VaultWiring(x, <<x.traderBalance, x.enginePoolBalance>>)
      forwarded == [i \in DOMAIN sent |-> IF i \in 5..6 THEN Rw(sent[i].key) ELSE Ro(sent[i].key)]
      list == adl_executeAdl(x) \o sent
  IN  Ix("auto_deleveraging", "executeAdl", list, list, {adl_AdlConfig},
         <<Call(OpenPosition([x EXCEPT !.market = x.engineMarket, !.position = x.enginePosition,
                                       !.trader = x.traderAccount,
                                         !.operator = adl_AdlAuthority]),
                <<Ro(x.engineConfig), Rw(x.engineMarket), Rw(x.enginePosition),
                  Ro(x.traderAccount), Ro(x.engineOperatorAccount), RwSg(adl_AdlAuthority),
                  Ro(SystemProgram)>> \o forwarded)>>)

AdlInstructions(x) ==
  Owned("auto_deleveraging", adl_AdlConfig,
    [initialize |-> adl_initialize(x), pause |-> adl_pause(x), unpause |-> adl_unpause(x),
     setAdlEnabled |-> adl_setAdlEnabled(x), setAdlParams |-> adl_setAdlParams(x),
     transferOwnership |-> adl_transferOwnership(x), acceptOwnership |-> adl_acceptOwnership(x)])
  \cup {Plain("auto_deleveraging", "setOperator", adl_setOperator(x), {adl_Operator(x.operator)}),
        ExecuteAdl(x)}

-----------------------------------------------------------------------------
(* insurance_fund *)
PayKeeperReward(x) ==
  Ix("insurance_fund", "payKeeperReward", fund_payKeeperReward(x),
     fund_payKeeperReward([x EXCEPT !.perpVaultProgram = Program("perp_vault")]),
     {fund_InsuranceFundConfig},
     <<VaultTransfer(x.vaultConfig, x.vaultOperatorAccount, x.fromBalance, x.toBalance,
                     fund_InsuranceFundAuthority)>>)

BootstrapInsurancePool(x) ==
  Ix("insurance_fund", "bootstrapInsurancePool", fund_bootstrapInsurancePool(x),
     fund_bootstrapInsurancePool([x EXCEPT !.perpVaultProgram = Program("perp_vault")]), {},
     <<BootstrapDeposit(x, x.fundPoolBalance, fund_InsuranceFundAuthority)>>)

RecordBadDebt(x) ==
  Plain("insurance_fund", "recordBadDebt", fund_recordBadDebt(x),
        {fund_InsuranceFundConfig, fund_MarketBadDebt(x.marketId)})

FundInstructions(x) ==
  Owned("insurance_fund", fund_InsuranceFundConfig,
    [initialize |-> fund_initialize(x), pause |-> fund_pause(x), unpause |-> fund_unpause(x),
     setMaxDailyKeeperRewards |-> fund_setMaxDailyKeeperRewards(x),
     setMaxKeeperRewardPerCall |-> fund_setMaxKeeperRewardPerCall(x),
     transferOwnership |-> fund_transferOwnership(x),
     acceptOwnership |-> fund_acceptOwnership(x)])
  \cup {Plain("insurance_fund", "setOperator", fund_setOperator(x), {fund_Operator(x.operator)}),
        PayKeeperReward(x), BootstrapInsurancePool(x), RecordBadDebt(x)}

-----------------------------------------------------------------------------
(* sur_timelock.  x.dispatched is the instruction a queued transaction     *)
(* stands for; the timelock hands on the accounts it was sent with the     *)
(* writable flags they came with, and signs for its own authority only.    *)
ExecuteTransaction(x) ==
  LET inner == x.dispatched.accounts
      sent == [i \in DOMAIN inner |-> [inner[i] EXCEPT !.signer = FALSE]]
      list(y) == timelock_executeTransaction(y) \o <<Ro(Program(x.dispatched.program))>> \o sent
  IN  [Ix("sur_timelock", "executeTransaction: " \o x.dispatched.name, list(x),
          list([x EXCEPT !.queued = timelock_QueuedTx(x.txHash)]), {x.queued},
          <<Call(x.dispatched,
                 [i \in DOMAIN sent |->
                    [sent[i] EXCEPT !.signer = (sent[i].key = timelock_TimelockAuthority)]])>>)
        EXCEPT !.typed = {x.queued}]

CancelTransaction(x) ==
  Ix("sur_timelock", "cancelTransaction", timelock_cancelTransaction(x),
     timelock_cancelTransaction([x EXCEPT !.queued = timelock_QueuedTx(x.txHash)]), {x.queued},
       <<>>)

TimelockAdmin(x) ==
  Owned("sur_timelock", timelock_TimelockConfig,
    [initialize |-> timelock_initialize(x), setDelay |-> timelock_setDelay(x),
     setGuardian |-> timelock_setGuardian(x), completeSetup |-> timelock_completeSetup(x),
     transferOwnership |-> timelock_transferOwnership(x),
     acceptOwnership |-> timelock_acceptOwnership(x)])
  \cup {Plain("sur_timelock", "setPausableTarget", timelock_setPausableTarget(x),
              {timelock_PausableTarget(x.target)})}

TimelockInstructions(x) ==
  TimelockAdmin(x) \cup
  {Plain("sur_timelock", "queueTransaction", timelock_queueTransaction(x),
         {timelock_QueuedTx(x.txHash)}),
   Plain("sur_timelock", "emergencyPause", timelock_emergencyPause(x), {}),
   CancelTransaction(x)}

-----------------------------------------------------------------------------
(* collateral_manager *)
CollateralMove(name, list(_), x, transfer, vaultOp) ==
  Ix("collateral_manager", name, list(x),
     list([x EXCEPT !.escrow = collateral_Escrow(x.mint), !.vaultProgram = Program("perp_vault"),
                    !.vaultConfig = vault_VaultConfig,
                    !.vaultOperatorAccount = vault_Operator(collateral_CollateralManagerAuthority)]),
     {collateral_Collateral(x.mint), collateral_Deposit(x.mint, x.trader)},
     <<transfer, VaultCollateral(vaultOp, x.vaultConfig, x.vaultOperatorAccount,
                                 x.traderBalance, x.trader,
                                   collateral_CollateralManagerAuthority)>>)

CollateralDeposit(x) ==
  CollateralMove("deposit", collateral_deposit, x,
                 TokenTransfer(x.traderToken, x.escrow, x.trader),
                 "creditCollateral")

CollateralWithdraw(x) ==
  CollateralMove("withdraw", collateral_withdraw, x,
                 TokenTransfer(x.escrow, x.traderToken, collateral_Vault(x.mint)),
                   "debitCollateral")

CollateralAdmin(x) ==
  Owned("collateral_manager", collateral_Config,
    [initialize |-> collateral_initialize(x), pause |-> collateral_pause(x),
     unpause |-> collateral_unpause(x),
     setLiquidationThresholdBps |-> collateral_setLiquidationThresholdBps(x),
     setMaxPriceDeviationBps |-> collateral_setMaxPriceDeviationBps(x),
     transferOwnership |-> collateral_transferOwnership(x),
     acceptOwnership |-> collateral_acceptOwnership(x)])
  \cup {Plain("collateral_manager", "setOperator", collateral_setOperator(x),
              {collateral_Operator(x.operator)})}

CollateralAssets(x) ==
  {Ix("collateral_manager", "addCollateral", collateral_addCollateral(x),
      collateral_addCollateral(x),
      {collateral_Config, collateral_Collateral(x.mint)},
        <<TokenAccountInit(collateral_Escrow(x.mint))>>),
   Plain("collateral_manager", "updateHaircut", collateral_updateHaircut(x),
         {collateral_Collateral(x.collateral_mint)}),
   Plain("collateral_manager", "pauseCollateral", collateral_pauseCollateral(x),
         {collateral_Collateral(x.collateral_mint)}),
   Plain("collateral_manager", "unpauseCollateral", collateral_unpauseCollateral(x),
         {collateral_Collateral(x.collateral_mint)}),
   Plain("collateral_manager", "updatePrice", collateral_updatePrice(x),
         {collateral_Collateral(x.collateral_mint)})}

CollateralInstructions(x) ==
  CollateralAdmin(x) \cup CollateralAssets(x) \cup {CollateralDeposit(x), CollateralWithdraw(x)}

-----------------------------------------------------------------------------
(* order_settlement *)
NoncePage(trader, page) == Pda("order_settlement", "nonce_page", <<trader, page>>)

SettleOne(x) ==
  LET fee(from) == VaultTransfer(x.vaultConfig, x.vaultOperatorAccount, from,
                                 x.feeRecipientBalance, settlement_OrderSettlementAuthority)
      checked == [x EXCEPT !.makerNoncePage = NoncePage(x.makerTrader, x.page),
                           !.takerNoncePage = NoncePage(x.takerTrader, x.page),
                           !.perpEngineProgram = Program("perp_engine"),
                           !.engineConfig = engine_EngineConfig,
                           !.engineOperatorAccount = engine_Operator(settlement_OrderSettlementAuthority),
                           !.perpVaultProgram = Program("perp_vault"),
                           !.vaultConfig = vault_VaultConfig,
                           !.vaultOperatorAccount = vault_Operator(settlement_OrderSettlementAuthority),
                           !.makerBalance = vault_Balance(x.makerTrader),
                           !.takerBalance = vault_Balance(x.takerTrader),
                           !.feeRecipientBalance = vault_Balance(x.feeRecipient)]
  IN  Ix("order_settlement", "settleOne", settlement_settleOne(x), settlement_settleOne(checked),
         {settlement_Config, x.makerNoncePage, x.takerNoncePage},
         <<fee(x.makerBalance), fee(x.takerBalance)>>
           \o RouteEngineTrade(x, x.makerTrader, x.makerPosition, x.makerBalance,
                               settlement_OrderSettlementAuthority)
           \o RouteEngineTrade(x, x.takerTrader, x.takerPosition, x.takerBalance,
                               settlement_OrderSettlementAuthority))

SettlementInstructions(x) ==
  Owned("order_settlement", settlement_Config,
    [initialize |-> settlement_initialize(x), pause |-> settlement_pause(x),
     unpause |-> settlement_unpause(x),
     setFees |-> settlement_setFees(x), setFeeRecipient |-> settlement_setFeeRecipient(x),
     setSettlementDelay |-> settlement_setSettlementDelay(x),
     setDynamicSpreadEnabled |-> settlement_setDynamicSpreadEnabled(x),
     setDynamicSpreadTiers |-> settlement_setDynamicSpreadTiers(x),
     transferOwnership |-> settlement_transferOwnership(x),
     acceptOwnership |-> settlement_acceptOwnership(x)])
  \cup {Plain("order_settlement", "setOperator", settlement_setOperator(x),
              {settlement_Operator(x.operator)}),
        Plain("order_settlement", "commitOrder", settlement_commitOrder(x),
              {settlement_Commit(x.commitHash)}),
        SettleOne(x)}

-----------------------------------------------------------------------------
(* a2a_darkpool *)
AcceptAndSettle(x) ==
  LET fee(from) == VaultTransfer(x.vaultConfig, x.vaultOperatorAccount, from,
                                 x.feeRecipientBalance, darkpool_DarkpoolAuthority)
      checked == [x EXCEPT !.engineMarket = engine_Market(x.marketId),
                           !.buyerBalance = vault_Balance(x.buyerTrader),
                           !.sellerBalance = vault_Balance(x.sellerTrader),
                           !.feeRecipientBalance = vault_Balance(x.feeRecipient)]
  IN  Ix("a2a_darkpool", "acceptAndSettle", darkpool_acceptAndSettle(x),
         darkpool_acceptAndSettle(checked),
         {darkpool_Intent(x.intent_id), darkpool_Response(x.response_id),
          darkpool_Reputation(x.intent_agent),
          darkpool_Reputation(x.response_agent)},
         RouteEngineTrade(x, x.buyerTrader, x.buyerPosition, x.buyerBalance,
                          darkpool_DarkpoolAuthority)
           \o RouteEngineTrade(x, x.sellerTrader, x.sellerPosition, x.sellerBalance,
                               darkpool_DarkpoolAuthority)
           \o <<fee(x.buyerBalance), fee(x.sellerBalance)>>)

DarkpoolAdmin(x) ==
  Owned("a2a_darkpool", darkpool_Config,
    [initialize |-> darkpool_initialize(x), pause |-> darkpool_pause(x),
     unpause |-> darkpool_unpause(x),
     setFeeBps |-> darkpool_setFeeBps(x), setFeeRecipient |-> darkpool_setFeeRecipient(x),
     setLargeTradeMinReputation |-> darkpool_setLargeTradeMinReputation(x),
     setLargeTradeThreshold |-> darkpool_setLargeTradeThreshold(x),
     transferOwnership |-> darkpool_transferOwnership(x),
     acceptOwnership |-> darkpool_acceptOwnership(x)])
  \cup {Plain("a2a_darkpool", "initFreshnessConfig", darkpool_initFreshnessConfig(x),
              {darkpool_FreshnessConfig}),
        Plain("a2a_darkpool", "setMaxSettlementPriceAge", darkpool_setMaxSettlementPriceAge(x),
              {darkpool_FreshnessConfig})}

DarkpoolOffers(x) ==
  {Plain("a2a_darkpool", "postIntent", darkpool_postIntent(x),
         {darkpool_Config, darkpool_Intent(x.config_nextIntentId), darkpool_Reputation(x.agent)}),
   Plain("a2a_darkpool", "postResponse", darkpool_postResponse(x),
         {darkpool_Config, darkpool_Response(x.config_nextResponseId),
          darkpool_Reputation(x.responder)}),
   Plain("a2a_darkpool", "cancelIntent", darkpool_cancelIntent(x),
         {darkpool_Intent(x.intent_id), darkpool_Reputation(x.agent)}),
   Plain("a2a_darkpool", "cancelResponse", darkpool_cancelResponse(x),
         {darkpool_Response(x.response_id), darkpool_Reputation(x.responder)})}

DarkpoolInstructions(x) == DarkpoolAdmin(x) \cup DarkpoolOffers(x) \cup {AcceptAndSettle(x)}

-----------------------------------------------------------------------------
(* trading_vault *)
TradingVaultChecked(x) ==
  [x EXCEPT !.perpVaultProgram = Program("perp_vault"), !.perpVaultConfig = vault_VaultConfig,
            !.perpEngineProgram = Program("perp_engine"),
              !.perpEngineConfig = engine_EngineConfig,
            !.vaultOperatorAccount = vault_Operator(tvault_TradingVaultAuthority),
            !.engineOperatorAccount = engine_Operator(tvault_TradingVaultAuthority)]

ShareTransfer(x, from, to) ==
  VaultTransfer(x.perpVaultConfig, x.vaultOperatorAccount, from, to, tvault_TradingVaultAuthority)

\* Fees to the manager, then the depositor's own money in one direction.
ShareMove(name, list(_), x, move) ==
  Ix("trading_vault", name, list(x), list(TradingVaultChecked(x)),
     {tvault_Vault(x.vault_id), tvault_Share(x.vault_id, x.depositor)},
     <<ShareTransfer(x, x.vaultBalance, x.managerBalance), move>>)

VaultShares(x) ==
  {ShareMove("deposit", tvault_deposit, x, ShareTransfer(x, x.depositorBalance, x.vaultBalance)),
   ShareMove("withdraw", tvault_withdraw, x,
             ShareTransfer(x, x.vaultBalance, x.depositorBalance))}

\* The vault account itself is the trader, its own balance the source of margin.
ManagerTrade(x) ==
  LET y == [x EXCEPT !.engineConfig = x.perpEngineConfig, !.vaultConfig = x.perpVaultConfig]
  IN  RouteEngineTrade(y, tvault_Vault(x.vault_id), x.position, x.vaultBalance,
                       tvault_TradingVaultAuthority)

ManagerOpenPosition(x) ==
  Ix("trading_vault", "managerOpenPosition", tvault_managerOpenPosition(x),
     tvault_managerOpenPosition(TradingVaultChecked(x)), {tvault_Vault(x.vault_id)},
       ManagerTrade(x))

ManagerClosePosition(x) ==
  Ix("trading_vault", "managerClosePosition", tvault_managerClosePosition(x),
     tvault_managerClosePosition(TradingVaultChecked(x)), {}, <<ManagerTrade(x)[3]>>)

InitVaultBalance(x) ==
  LET move(name) == VaultCollateral(name, x.perpVaultConfig, x.vaultOperatorAccount,
                                    x.vaultBalance, tvault_Vault(x.vault_id),
                                    tvault_TradingVaultAuthority)
  IN  Ix("trading_vault", "initVaultBalance", tvault_initVaultBalance(x),
         tvault_initVaultBalance(TradingVaultChecked(x)), {},
         <<move("creditCollateral"), move("debitCollateral")>>)

TradingVaultAdmin(x) ==
  Owned("trading_vault", tvault_Config,
    [initialize |-> tvault_initialize(x),
     setDrawdownCooldownSecs |-> tvault_setDrawdownCooldownSecs(x),
     transferOwnership |-> tvault_transferOwnership(x),
     acceptOwnership |-> tvault_acceptOwnership(x)])
  \cup Owned("trading_vault", tvault_Vault(x.vault_id),
    [emergencyPause |-> tvault_emergencyPause(x), unpauseVault |-> tvault_unpauseVault(x),
     updateVaultSafetyLimits |-> tvault_updateVaultSafetyLimits(x)])
  \cup {Plain("trading_vault", "setOperator", tvault_setOperator(x),
              {tvault_Operator(x.operator)}),
        Plain("trading_vault", "createVault", tvault_createVault(x),
              {tvault_Config, tvault_Vault(x.vaultId)})}

TradingVaultInstructions(x) ==
  TradingVaultAdmin(x) \cup VaultShares(x)
    \cup {ManagerOpenPosition(x), ManagerClosePosition(x), InitVaultBalance(x)}
=============================================================================
