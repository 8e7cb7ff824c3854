----------------------------- MODULE Interfaces -----------------------------
(***************************************************************************)
(* Addresses, and the accounts of every instruction of the eleven programs *)
(* as the IDL types list them to clients: in order, with their writable    *)
(* and signer flags, derived accounts by their seeds.  x holds the         *)
(* accounts and seed arguments an instruction leaves to its caller; the    *)
(* first part of a name is its program's.                                  *)
(*                                                                         *)
(* An address is a tuple: a wallet or token account by name, or a program  *)
(* derived address by its program and seeds (equal addresses exactly for   *)
(* equal seeds).  A meta is the entry of an account in an instruction's    *)
(* list, with the two privileges the instruction has over it.              *)
(***************************************************************************)

Pda(program, seed, args) == <<"pda", program, seed, args>>
Wallet(name) == <<"wallet", name>>
TokenAccount(name) == <<"token", name>>
Program(name) == <<"program", name>>

SystemProgram == Program("system")
TokenProgram == Program("token")
RentSysvar == Program("rent")
InstructionsSysvar == Program("instructions")

Ro(key) == [key |-> key, writable |-> FALSE, signer |-> FALSE]
Rw(key) == [key |-> key, writable |-> TRUE, signer |-> FALSE]
Sg(key) == [key |-> key, writable |-> FALSE, signer |-> TRUE]
RwSg(key) == [key |-> key, writable |-> TRUE, signer |-> TRUE]

Entries(list) == {list[i] : i \in DOMAIN list}
Listed(list) == {m.key : m \in Entries(list)}
Writable(list) == {m.key : m \in {e \in Entries(list) : e.writable}}
Signing(list) == {m.key : m \in {e \in Entries(list) : e.signer}}

-----------------------------------------------------------------------------
(* perp_vault: the USDC custody program                                    *)
vault_VaultConfig == Pda("perp_vault", "vault_config", <<>>)
vault_Operator(a) == Pda("perp_vault", "operator", <<a>>)
vault_Balance(a) == Pda("perp_vault", "balance", <<a>>)
vault_VaultAuthority == Pda("perp_vault", "vault_authority", <<>>)
vault_UsdcVault == Pda("perp_vault", "usdc_vault", <<>>)

vault_acceptOwnership(x) == <<Rw(vault_VaultConfig), Sg(x.pendingOwner)>>
vault_creditCollateral(x) ==
  <<Rw(vault_VaultConfig), Ro(vault_Operator(x.operator)), Rw(vault_Balance(x.trader)),
    Ro(x.trader), RwSg(x.operator), Ro(SystemProgram)>>
vault_debitCollateral(x) ==
  <<Rw(vault_VaultConfig), Ro(vault_Operator(x.operator)), Rw(vault_Balance(x.trader)),
    Ro(x.trader), RwSg(x.operator), Ro(SystemProgram)>>
vault_deposit(x) ==
  <<Rw(vault_VaultConfig), Rw(x.usdcVault), Rw(x.userUsdc), Rw(vault_Balance(x.depositor)),
    RwSg(x.depositor), Ro(TokenProgram), Ro(SystemProgram)>>
vault_initialize(x) ==
  <<Rw(vault_VaultConfig), Ro(vault_VaultAuthority), Ro(x.usdcMint), Rw(vault_UsdcVault),
    RwSg(x.owner), Ro(SystemProgram), Ro(TokenProgram), Ro(RentSysvar)>>
vault_internalTransfer(x) ==
  <<Ro(vault_VaultConfig), Ro(vault_Operator(x.operator)),
    Rw(vault_Balance(x.fromBalance_trader)), Rw(vault_Balance(x.toBalance_trader)),
    Sg(x.operator)>>
vault_pause(x) == <<Rw(vault_VaultConfig), Sg(x.owner)>>
vault_setDepositCap(x) == <<Rw(vault_VaultConfig), Sg(x.owner)>>
vault_setMaxOperatorTransferPerTx(x) == <<Rw(vault_VaultConfig), Sg(x.owner)>>
vault_setMaxWithdrawalPerTx(x) == <<Rw(vault_VaultConfig), Sg(x.owner)>>
vault_setOperator(x) ==
  <<Ro(vault_VaultConfig), Rw(vault_Operator(x.operator)), RwSg(x.owner),
    Ro(SystemProgram)>>
vault_transferOwnership(x) == <<Rw(vault_VaultConfig), Sg(x.owner)>>
vault_unpause(x) == <<Rw(vault_VaultConfig), Sg(x.owner)>>
vault_withdraw(x) ==
  <<Rw(vault_VaultConfig), Ro(vault_VaultAuthority), Rw(x.usdcVault), Rw(x.userUsdc),
    Rw(vault_Balance(x.withdrawer)), Sg(x.withdrawer), Ro(TokenProgram)>>

-----------------------------------------------------------------------------
(* perp_engine: the perpetual futures engine                               *)
engine_EngineConfig == Pda("perp_engine", "engine_config", <<>>)
engine_Market(a) == Pda("perp_engine", "market", <<a>>)
engine_EngineAuthority == Pda("perp_engine", "engine_authority", <<>>)
engine_Operator(a) == Pda("perp_engine", "operator", <<a>>)

engine_acceptOwnership(x) == <<Rw(engine_EngineConfig), Sg(x.pendingOwner)>>
engine_addMarket(x) ==
  <<Ro(engine_EngineConfig), Rw(engine_Market(x.marketId)), RwSg(x.owner),
    Ro(SystemProgram)>>
engine_bootstrapEnginePool(x) ==
  <<Rw(engine_EngineConfig), Rw(engine_EngineAuthority), Ro(x.perpVaultProgram),
    Rw(x.vaultConfig), Rw(x.usdcVault), Rw(x.authorityUsdc), Rw(x.enginePoolBalance),
    Ro(x.tokenProgram), RwSg(x.owner), Ro(SystemProgram)>>
engine_closePosition(x) ==
  <<Ro(engine_EngineConfig), Rw(x.market), Rw(x.position), Ro(engine_Operator(x.operator)),
    Sg(x.operator)>>
engine_initialize(x) ==
  <<Rw(engine_EngineConfig), Ro(engine_EngineAuthority), Ro(x.perpVault),
    Ro(x.oracleRouter), RwSg(x.owner), Ro(SystemProgram)>>
engine_liquidatePosition(x) ==
  <<Ro(engine_EngineConfig), Rw(x.market), Rw(x.position), Ro(engine_Operator(x.operator)),
    Sg(x.operator)>>
engine_openPosition(x) ==
  <<Ro(engine_EngineConfig), Rw(x.market), Rw(x.position), Ro(x.trader),
    Ro(engine_Operator(x.operator)), RwSg(x.operator), Ro(SystemProgram)>>
engine_pause(x) == <<Rw(engine_EngineConfig), Sg(x.owner)>>
engine_reducePosition(x) ==
  <<Ro(engine_EngineConfig), Rw(x.market), Rw(x.position), Ro(engine_Operator(x.operator)),
    Sg(x.operator)>>
engine_setInsuranceFundBalance(x) == <<Rw(engine_EngineConfig), Sg(x.owner)>>
engine_setOperator(x) ==
  <<Ro(engine_EngineConfig), Rw(engine_Operator(x.operator)), RwSg(x.owner),
    Ro(SystemProgram)>>
engine_transferOwnership(x) == <<Rw(engine_EngineConfig), Sg(x.owner)>>
engine_unpause(x) == <<Rw(engine_EngineConfig), Sg(x.owner)>>
engine_updateMarkPrice(x) ==
  <<Ro(engine_EngineConfig), Rw(x.market), Ro(engine_Operator(x.operator)), Sg(x.operator)>>

-----------------------------------------------------------------------------
(* insurance_fund: the insurance fund                                      *)
fund_InsuranceFundConfig == Pda("insurance_fund", "insurance_fund_config", <<>>)
fund_InsuranceFundAuthority == Pda("insurance_fund", "insurance_fund_authority", <<>>)
fund_Operator(a) == Pda("insurance_fund", "operator", <<a>>)
fund_MarketBadDebt(a) == Pda("insurance_fund", "market_bad_debt", <<a>>)

fund_acceptOwnership(x) == <<Rw(fund_InsuranceFundConfig), Sg(x.pendingOwner)>>
fund_bootstrapInsurancePool(x) ==
  <<Ro(fund_InsuranceFundConfig), Rw(fund_InsuranceFundAuthority), Ro(x.perpVaultProgram),
    Rw(x.vaultConfig), Rw(x.usdcVault), Rw(x.authorityUsdc), Rw(x.fundPoolBalance),
    Ro(x.tokenProgram), RwSg(x.owner), Ro(SystemProgram)>>
fund_initialize(x) ==
  <<Rw(fund_InsuranceFundConfig), Ro(fund_InsuranceFundAuthority), Ro(x.vault),
    RwSg(x.owner), Ro(SystemProgram)>>
fund_pause(x) == <<Rw(fund_InsuranceFundConfig), Sg(x.owner)>>
fund_payKeeperReward(x) ==
  <<Rw(fund_InsuranceFundConfig), Ro(fund_Operator(x.operator)), Sg(x.operator),
    Ro(fund_InsuranceFundAuthority), Ro(x.perpVaultProgram), Ro(x.vaultConfig),
    Ro(x.vaultOperatorAccount), Rw(x.fromBalance), Rw(x.toBalance)>>
fund_recordBadDebt(x) ==
  <<Rw(fund_InsuranceFundConfig), Rw(fund_MarketBadDebt(x.marketId)),
    Ro(fund_Operator(x.operator)), RwSg(x.operator), Ro(SystemProgram)>>
fund_setMaxDailyKeeperRewards(x) == <<Rw(fund_InsuranceFundConfig), Sg(x.owner)>>
fund_setMaxKeeperRewardPerCall(x) == <<Rw(fund_InsuranceFundConfig), Sg(x.owner)>>
fund_setOperator(x) ==
  <<Ro(fund_InsuranceFundConfig), Rw(fund_Operator(x.operator)), RwSg(x.owner),
    Ro(SystemProgram)>>
fund_transferOwnership(x) == <<Rw(fund_InsuranceFundConfig), Sg(x.owner)>>
fund_unpause(x) == <<Rw(fund_InsuranceFundConfig), Sg(x.owner)>>

-----------------------------------------------------------------------------
(* liquidator: the keeper entry point of liquidations                      *)
liquidator_LiquidatorConfig == Pda("liquidator", "liquidator_config", <<>>)
liquidator_Keeper(a) == Pda("liquidator", "keeper", <<a>>)
liquidator_LiquidatorAuthority == Pda("liquidator", "liquidator_authority", <<>>)

liquidator_acceptOwnership(x) == <<Rw(liquidator_LiquidatorConfig), Sg(x.pendingOwner)>>
liquidator_initialize(x) ==
  <<Rw(liquidator_LiquidatorConfig), Ro(x.perpEngine), Ro(x.insuranceFund), RwSg(x.owner),
    Ro(SystemProgram)>>
liquidator_liquidate(x) ==
  <<Rw(liquidator_LiquidatorConfig), Rw(liquidator_Keeper(x.keeper)),
    Rw(liquidator_LiquidatorAuthority), RwSg(x.keeper), Ro(x.perpEngineProgram),
    Ro(x.engineConfig), Rw(x.engineMarket), Rw(x.enginePosition),
    Ro(x.engineOperatorAccount), Ro(SystemProgram)>>
liquidator_pause(x) == <<Rw(liquidator_LiquidatorConfig), Sg(x.owner)>>
liquidator_transferOwnership(x) == <<Rw(liquidator_LiquidatorConfig), Sg(x.owner)>>
liquidator_unpause(x) == <<Rw(liquidator_LiquidatorConfig), Sg(x.owner)>>

-----------------------------------------------------------------------------
(* auto_deleveraging: the forced reduction of profitable positions         *)
adl_AdlConfig == Pda("auto_deleveraging", "adl_config", <<>>)
adl_Operator(a) == Pda("auto_deleveraging", "operator", <<a>>)
adl_AdlAuthority == Pda("auto_deleveraging", "adl_authority", <<>>)

adl_acceptOwnership(x) == <<Rw(adl_AdlConfig), Sg(x.pendingOwner)>>
adl_executeAdl(x) ==
  <<Rw(adl_AdlConfig), Ro(adl_Operator(x.operator)), RwSg(x.operator), Rw(adl_AdlAuthority),
    Ro(x.perpEngineProgram), Ro(x.engineConfig), Rw(x.engineMarket), Rw(x.enginePosition),
    Ro(x.traderAccount), Ro(x.engineOperatorAccount), Ro(SystemProgram)>>
adl_initialize(x) ==
  <<Rw(adl_AdlConfig), Ro(adl_AdlAuthority), Ro(x.perpEngine), Ro(x.perpVault),
    Ro(x.insuranceFund), RwSg(x.owner), Ro(SystemProgram)>>
adl_pause(x) == <<Rw(adl_AdlConfig), Sg(x.owner)>>
adl_setAdlEnabled(x) == <<Rw(adl_AdlConfig), Sg(x.owner)>>
adl_setAdlParams(x) == <<Rw(adl_AdlConfig), Sg(x.owner)>>
adl_setOperator(x) ==
  <<Ro(adl_AdlConfig), Rw(adl_Operator(x.operator)), RwSg(x.owner), Ro(SystemProgram)>>
adl_transferOwnership(x) == <<Rw(adl_AdlConfig), Sg(x.owner)>>
adl_unpause(x) == <<Rw(adl_AdlConfig), Sg(x.owner)>>

-----------------------------------------------------------------------------
(* oracle_router: the price gate in front of the engine                    *)
oracle_OracleConfig == Pda("oracle_router", "oracle_config", <<>>)
oracle_Feed(a) == Pda("oracle_router", "feed", <<a>>)
oracle_Operator(a) == Pda("oracle_router", "operator", <<a>>)
oracle_OracleAuthority == Pda("oracle_router", "oracle_authority", <<>>)

oracle_acceptOwnership(x) == <<Rw(oracle_OracleConfig), Sg(x.pendingOwner)>>
oracle_configureFeed(x) ==
  <<Ro(oracle_OracleConfig), Rw(oracle_Feed(x.marketId)), RwSg(x.owner), Ro(SystemProgram)>>
oracle_deactivateFeed(x) == <<Ro(oracle_OracleConfig), Rw(x.feed), Sg(x.owner)>>
oracle_initialize(x) == <<Rw(oracle_OracleConfig), RwSg(x.owner), Ro(SystemProgram)>>
oracle_pushPrice(x) ==
  <<Rw(oracle_OracleConfig), Rw(x.feed), Ro(oracle_Operator(x.operator)), Sg(x.operator),
    Ro(oracle_OracleAuthority), Ro(x.perpEngineProgram), Ro(x.engineConfig),
    Rw(x.engineMarket), Ro(x.engineOperatorAccount)>>
oracle_resetCircuitBreaker(x) == <<Rw(oracle_OracleConfig), Sg(x.owner)>>
oracle_setCircuitBreakerParams(x) == <<Rw(oracle_OracleConfig), Sg(x.owner)>>
oracle_setOperator(x) ==
  <<Ro(oracle_OracleConfig), Rw(oracle_Operator(x.operator)), RwSg(x.owner),
    Ro(SystemProgram)>>
oracle_transferOwnership(x) == <<Rw(oracle_OracleConfig), Sg(x.owner)>>

-----------------------------------------------------------------------------
(* sur_timelock: the governance delay                                      *)
timelock_TimelockConfig == Pda("sur_timelock", "timelock_config", <<>>)
timelock_PausableTarget(a) == Pda("sur_timelock", "pausable_target", <<a>>)
timelock_TimelockAuthority == Pda("sur_timelock", "timelock_authority", <<>>)
timelock_QueuedTx(a) == Pda("sur_timelock", "queued_tx", <<a>>)

timelock_acceptOwnership(x) == <<Rw(timelock_TimelockConfig), Sg(x.pendingOwner)>>
timelock_cancelTransaction(x) == <<Ro(timelock_TimelockConfig), Rw(x.queued), RwSg(x.owner)>>
timelock_completeSetup(x) == <<Rw(timelock_TimelockConfig), Sg(x.owner)>>
timelock_emergencyPause(x) ==
  <<Ro(timelock_TimelockConfig), Ro(timelock_PausableTarget(x.pausableTarget_target)),
    Sg(x.guardian)>>
timelock_executeTransaction(x) ==
  <<Ro(timelock_TimelockConfig), Rw(x.queued), Ro(timelock_TimelockAuthority),
    RwSg(x.owner)>>
timelock_initialize(x) ==
  <<Rw(timelock_TimelockConfig), Ro(timelock_TimelockAuthority), Ro(x.guardian),
    RwSg(x.owner), Ro(SystemProgram)>>
timelock_queueTransaction(x) ==
  <<Ro(timelock_TimelockConfig), Rw(timelock_QueuedTx(x.txHash)), RwSg(x.owner),
    Ro(SystemProgram)>>
timelock_setDelay(x) == <<Rw(timelock_TimelockConfig), Sg(x.owner)>>
timelock_setGuardian(x) == <<Rw(timelock_TimelockConfig), Sg(x.owner)>>
timelock_setPausableTarget(x) ==
  <<Ro(timelock_TimelockConfig), Rw(timelock_PausableTarget(x.target)), RwSg(x.owner),
    Ro(SystemProgram)>>
timelock_transferOwnership(x) == <<Rw(timelock_TimelockConfig), Sg(x.owner)>>

-----------------------------------------------------------------------------
(* collateral_manager: non-USDC collateral                                 *)
collateral_Config == Pda("collateral_manager", "config", <<>>)
collateral_Collateral(a) == Pda("collateral_manager", "collateral", <<a>>)
collateral_Vault(a) == Pda("collateral_manager", "vault", <<a>>)
collateral_Escrow(a) == Pda("collateral_manager", "escrow", <<a>>)
collateral_Deposit(a, b) == Pda("collateral_manager", "deposit", <<a, b>>)
collateral_CollateralManagerAuthority == Pda("collateral_manager", "collateral_manager_authority", <<>>)
collateral_Operator(a) == Pda("collateral_manager", "operator", <<a>>)

collateral_acceptOwnership(x) == <<Rw(collateral_Config), Sg(x.pendingOwner)>>
collateral_addCollateral(x) ==
  <<Rw(collateral_Config), Ro(x.mint), Rw(collateral_Collateral(x.mint)),
    Ro(collateral_Vault(x.mint)), Rw(collateral_Escrow(x.mint)), RwSg(x.owner),
    Ro(SystemProgram), Ro(TokenProgram), Ro(RentSysvar)>>
collateral_deposit(x) ==
  <<Ro(collateral_Config), Rw(collateral_Collateral(x.mint)), Ro(x.mint), Rw(x.escrow),
    Rw(x.traderToken), Rw(collateral_Deposit(x.mint, x.trader)), RwSg(x.trader),
    Rw(collateral_CollateralManagerAuthority), Ro(x.vaultProgram), Rw(x.vaultConfig),
    Ro(x.vaultOperatorAccount), Rw(x.traderBalance), Ro(TokenProgram), Ro(SystemProgram)>>
collateral_initialize(x) ==
  <<Rw(collateral_Config), Rw(collateral_CollateralManagerAuthority), Ro(x.vaultProgram),
    Ro(x.vaultConfig), Ro(x.vaultOperatorAccount), RwSg(x.owner), Ro(SystemProgram)>>
collateral_pause(x) == <<Rw(collateral_Config), Sg(x.owner)>>
collateral_pauseCollateral(x) ==
  <<Ro(collateral_Config), Rw(collateral_Collateral(x.collateral_mint)), Sg(x.owner)>>
collateral_setLiquidationThresholdBps(x) == <<Rw(collateral_Config), Sg(x.owner)>>
collateral_setMaxPriceDeviationBps(x) == <<Rw(collateral_Config), Sg(x.owner)>>
collateral_setOperator(x) ==
  <<Ro(collateral_Config), Rw(collateral_Operator(x.operator)), RwSg(x.owner),
    Ro(SystemProgram)>>
collateral_transferOwnership(x) == <<Rw(collateral_Config), Sg(x.owner)>>
collateral_unpause(x) == <<Rw(collateral_Config), Sg(x.owner)>>
collateral_unpauseCollateral(x) ==
  <<Ro(collateral_Config), Rw(collateral_Collateral(x.collateral_mint)), Sg(x.owner)>>
collateral_updateHaircut(x) ==
  <<Ro(collateral_Config), Rw(collateral_Collateral(x.collateral_mint)), Sg(x.owner)>>
collateral_updatePrice(x) ==
  <<Ro(collateral_Config), Rw(collateral_Collateral(x.collateral_mint)),
    Ro(collateral_Operator(x.operator)), Sg(x.operator)>>
collateral_withdraw(x) ==
  <<Ro(collateral_Config), Rw(collateral_Collateral(x.mint)), Ro(x.mint), Rw(x.escrow),
    Ro(collateral_Vault(x.mint)), Rw(x.traderToken), Rw(collateral_Deposit(x.mint,
    x.trader)), RwSg(x.trader), Rw(collateral_CollateralManagerAuthority),
    Ro(x.vaultProgram), Rw(x.vaultConfig), Ro(x.vaultOperatorAccount), Rw(x.traderBalance),
    Ro(TokenProgram), Ro(SystemProgram)>>

-----------------------------------------------------------------------------
(* order_settlement: matched off-chain orders                              *)
settlement_Config == Pda("order_settlement", "config", <<>>)
settlement_Operator(a) == Pda("order_settlement", "operator", <<a>>)
settlement_Commit(a) == Pda("order_settlement", "commit", <<a>>)
settlement_OrderSettlementAuthority == Pda("order_settlement", "order_settlement_authority", <<>>)

settlement_acceptOwnership(x) == <<Rw(settlement_Config), Sg(x.pendingOwner)>>
settlement_commitOrder(x) ==
  <<Ro(settlement_Config), Ro(settlement_Operator(x.operator)), Ro(InstructionsSysvar),
    Rw(settlement_Commit(x.commitHash)), RwSg(x.operator), Ro(SystemProgram)>>
settlement_initialize(x) ==
  <<Rw(settlement_Config), Rw(settlement_OrderSettlementAuthority), Ro(x.perpEngineProgram),
    Ro(x.perpEngineConfig), Ro(x.engineOperatorAccount), Ro(x.perpVaultProgram),
    Ro(x.perpVaultConfig), Ro(x.vaultOperatorAccount), Ro(x.feeRecipient), RwSg(x.owner),
    Ro(SystemProgram)>>
settlement_pause(x) == <<Rw(settlement_Config), Sg(x.owner)>>
settlement_setDynamicSpreadEnabled(x) == <<Rw(settlement_Config), Sg(x.owner)>>
settlement_setDynamicSpreadTiers(x) == <<Rw(settlement_Config), Sg(x.owner)>>
settlement_setFeeRecipient(x) == <<Rw(settlement_Config), Ro(x.newRecipient), Sg(x.owner)>>
settlement_setFees(x) == <<Rw(settlement_Config), Sg(x.owner)>>
settlement_setOperator(x) ==
  <<Ro(settlement_Config), Rw(settlement_Operator(x.operator)), RwSg(x.owner),
    Ro(SystemProgram)>>
settlement_setSettlementDelay(x) == <<Rw(settlement_Config), Sg(x.owner)>>
settlement_settleOne(x) ==
  <<Rw(settlement_Config), Ro(settlement_Operator(x.operator)),
    Rw(settlement_OrderSettlementAuthority), Rw(x.makerNoncePage), Rw(x.takerNoncePage),
    Ro(x.perpEngineProgram), Ro(x.engineConfig), Rw(x.engineMarket), Rw(x.makerPosition),
    Rw(x.takerPosition), Ro(x.makerTrader), Ro(x.takerTrader), Ro(x.engineOperatorAccount),
    Ro(x.engineAuthority), Ro(x.engineVaultOperator), Rw(x.enginePoolBalance),
    Ro(x.perpVaultProgram), Ro(x.vaultConfig), Ro(x.vaultOperatorAccount),
    Rw(x.makerBalance), Rw(x.takerBalance), Rw(x.feeRecipientBalance), Ro(x.makerSnapshot),
    Ro(x.takerSnapshot), Ro(InstructionsSysvar), RwSg(x.operator), Ro(SystemProgram)>>
settlement_transferOwnership(x) == <<Rw(settlement_Config), Sg(x.owner)>>
settlement_unpause(x) == <<Rw(settlement_Config), Sg(x.owner)>>

-----------------------------------------------------------------------------
(* a2a_darkpool: the agent-to-agent dark pool                              *)
darkpool_Config == Pda("a2a_darkpool", "config", <<>>)
darkpool_FreshnessConfig == Pda("a2a_darkpool", "freshness_config", <<>>)
darkpool_Intent(a) == Pda("a2a_darkpool", "intent", <<a>>)
darkpool_Response(a) == Pda("a2a_darkpool", "response", <<a>>)
darkpool_Reputation(a) == Pda("a2a_darkpool", "reputation", <<a>>)
darkpool_DarkpoolAuthority == Pda("a2a_darkpool", "darkpool_authority", <<>>)

darkpool_acceptAndSettle(x) ==
  <<Ro(darkpool_Config), Ro(darkpool_FreshnessConfig), Rw(darkpool_Intent(x.intent_id)),
    Rw(darkpool_Response(x.response_id)), Rw(darkpool_Reputation(x.intent_agent)),
    Rw(darkpool_Reputation(x.response_agent)), RwSg(x.intentCreator),
    Rw(darkpool_DarkpoolAuthority), Ro(x.perpEngineProgram), Ro(x.engineConfig),
    Rw(x.engineMarket), Rw(x.buyerPosition), Rw(x.sellerPosition), Ro(x.buyerTrader),
    Ro(x.sellerTrader), Ro(x.engineOperatorAccount), Ro(x.engineAuthority),
    Ro(x.engineVaultOperator), Rw(x.enginePoolBalance), Ro(x.perpVaultProgram),
    Ro(x.vaultConfig), Ro(x.vaultOperatorAccount), Rw(x.buyerBalance), Rw(x.sellerBalance),
    Rw(x.feeRecipientBalance), Ro(SystemProgram)>>
darkpool_acceptOwnership(x) == <<Rw(darkpool_Config), Sg(x.pendingOwner)>>
darkpool_cancelIntent(x) ==
  <<Ro(darkpool_Config), Rw(darkpool_Intent(x.intent_id)), Rw(darkpool_Reputation(x.agent)),
    Sg(x.agent)>>
darkpool_cancelResponse(x) ==
  <<Ro(darkpool_Config), Rw(darkpool_Response(x.response_id)),
    Rw(darkpool_Reputation(x.responder)), Sg(x.responder)>>
darkpool_initFreshnessConfig(x) ==
  <<Ro(darkpool_Config), Rw(darkpool_FreshnessConfig), RwSg(x.owner), Ro(SystemProgram)>>
darkpool_initialize(x) ==
  <<Rw(darkpool_Config), RwSg(x.owner), Ro(x.feeRecipient), Ro(x.perpEngine),
    Ro(x.perpVault), Ro(SystemProgram)>>
darkpool_pause(x) == <<Rw(darkpool_Config), Sg(x.owner)>>
darkpool_postIntent(x) ==
  <<Rw(darkpool_Config), Rw(darkpool_Intent(x.config_nextIntentId)),
    Rw(darkpool_Reputation(x.agent)), RwSg(x.agent), Ro(SystemProgram)>>
darkpool_postResponse(x) ==
  <<Rw(darkpool_Config), Ro(darkpool_Intent(x.intent_id)),
    Rw(darkpool_Response(x.config_nextResponseId)), Rw(darkpool_Reputation(x.responder)),
    RwSg(x.responder), Ro(SystemProgram)>>
darkpool_setFeeBps(x) == <<Rw(darkpool_Config), Sg(x.owner)>>
darkpool_setFeeRecipient(x) == <<Rw(darkpool_Config), Sg(x.owner)>>
darkpool_setLargeTradeMinReputation(x) == <<Rw(darkpool_Config), Sg(x.owner)>>
darkpool_setLargeTradeThreshold(x) == <<Rw(darkpool_Config), Sg(x.owner)>>
darkpool_setMaxSettlementPriceAge(x) ==
  <<Ro(darkpool_Config), Rw(darkpool_FreshnessConfig), Sg(x.owner)>>
darkpool_transferOwnership(x) == <<Rw(darkpool_Config), Sg(x.owner)>>
darkpool_unpause(x) == <<Rw(darkpool_Config), Sg(x.owner)>>

-----------------------------------------------------------------------------
(* trading_vault: managed vaults                                           *)
tvault_Config == Pda("trading_vault", "config", <<>>)
tvault_Vault(a) == Pda("trading_vault", "vault", <<a>>)
tvault_Share(a, b) == Pda("trading_vault", "share", <<a, b>>)
tvault_TradingVaultAuthority == Pda("trading_vault", "trading_vault_authority", <<>>)
tvault_Operator(a) == Pda("trading_vault", "operator", <<a>>)

tvault_acceptOwnership(x) == <<Rw(tvault_Config), Sg(x.pendingOwner)>>
tvault_createVault(x) ==
  <<Rw(tvault_Config), Rw(tvault_Vault(x.vaultId)), RwSg(x.manager), Ro(SystemProgram)>>
tvault_deposit(x) ==
  <<Ro(tvault_Config), Rw(tvault_Vault(x.vault_id)), Rw(tvault_Share(x.vault_id,
    x.depositor)), RwSg(x.depositor), Rw(tvault_TradingVaultAuthority),
    Ro(x.perpVaultProgram), Ro(x.perpVaultConfig), Ro(x.vaultOperatorAccount),
    Rw(x.depositorBalance), Rw(x.vaultBalance), Rw(x.managerBalance), Ro(SystemProgram)>>
tvault_emergencyPause(x) == <<Ro(tvault_Config), Rw(tvault_Vault(x.vault_id)), Sg(x.owner)>>
tvault_initVaultBalance(x) ==
  <<Ro(tvault_Config), Ro(tvault_Vault(x.vault_id)), RwSg(x.payer),
    Rw(tvault_TradingVaultAuthority), Ro(x.perpVaultProgram), Rw(x.perpVaultConfig),
    Ro(x.vaultOperatorAccount), Rw(x.vaultBalance), Ro(SystemProgram)>>
tvault_initialize(x) ==
  <<Rw(tvault_Config), Rw(tvault_TradingVaultAuthority), Ro(x.perpVaultProgram),
    Ro(x.perpVaultConfig), Ro(x.vaultOperatorAccount), Ro(x.perpEngineProgram),
    Ro(x.perpEngineConfig), Ro(x.engineOperatorAccount), RwSg(x.owner), Ro(SystemProgram)>>
tvault_managerClosePosition(x) ==
  <<Ro(tvault_Config), Ro(tvault_Vault(x.vault_id)), Sg(x.manager),
    Rw(tvault_TradingVaultAuthority), Ro(x.perpEngineProgram), Ro(x.perpEngineConfig),
    Rw(x.engineMarket), Rw(x.position), Ro(x.engineOperatorAccount), Ro(x.engineAuthority),
    Ro(x.perpVaultProgram), Ro(x.perpVaultConfig), Ro(x.engineVaultOperator),
    Rw(x.vaultBalance), Rw(x.enginePoolBalance)>>
tvault_managerOpenPosition(x) ==
  <<Ro(tvault_Config), Rw(tvault_Vault(x.vault_id)), Sg(x.manager),
    Rw(tvault_TradingVaultAuthority), Ro(x.perpEngineProgram), Ro(x.perpEngineConfig),
    Rw(x.engineMarket), Rw(x.position), Ro(x.engineOperatorAccount), Rw(x.vaultBalance),
    Ro(x.engineAuthority), Ro(x.perpVaultProgram), Ro(x.perpVaultConfig),
    Ro(x.engineVaultOperator), Rw(x.enginePoolBalance), Ro(SystemProgram)>>
tvault_setDrawdownCooldownSecs(x) == <<Rw(tvault_Config), Sg(x.owner)>>
tvault_setOperator(x) ==
  <<Ro(tvault_Config), Rw(tvault_Operator(x.operator)), RwSg(x.owner), Ro(SystemProgram)>>
tvault_transferOwnership(x) == <<Rw(tvault_Config), Sg(x.owner)>>
tvault_unpauseVault(x) == <<Ro(tvault_Config), Rw(tvault_Vault(x.vault_id)), Sg(x.manager)>>
tvault_updateVaultSafetyLimits(x) == <<Rw(tvault_Vault(x.vault_id)), Sg(x.manager)>>
tvault_withdraw(x) ==
  <<Ro(tvault_Config), Rw(tvault_Vault(x.vault_id)), Rw(tvault_Share(x.vault_id,
    x.depositor)), Sg(x.depositor), Rw(tvault_TradingVaultAuthority),
    Ro(x.perpVaultProgram), Ro(x.perpVaultConfig), Ro(x.vaultOperatorAccount),
    Rw(x.depositorBalance), Rw(x.vaultBalance), Rw(x.managerBalance), Ro(SystemProgram)>>
=============================================================================
