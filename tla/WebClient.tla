----------------------------- MODULE WebClient -----------------------------
(***************************************************************************)
(* The transactions the hooks of the web client send, with the addresses   *)
(* of its own pdas.ts, and the scene those addresses make for the other    *)
(* instructions.  In every hook the connected wallet is trader, operator   *)
(* and fee payer at once.                                                  *)
(***************************************************************************)
EXTENDS Programs

darkpoolConfig == Pda("a2a_darkpool", "config", <<>>)
intent(intentId) == Pda("a2a_darkpool", "intent", <<intentId>>)
response(responseId) == Pda("a2a_darkpool", "response", <<responseId>>)
agentReputation(agent) == Pda("a2a_darkpool", "reputation", <<agent>>)
vaultConfig == Pda("perp_vault", "vault_config", <<>>)
vaultAuthority == Pda("perp_vault", "vault_authority", <<>>)
usdcVault == Pda("perp_vault", "usdc_vault", <<>>)
accountBalance(trader) == Pda("perp_vault", "balance", <<trader>>)
vaultOperator(operator) == Pda("perp_vault", "operator", <<operator>>)
oracleAuthority == Pda("oracle_router", "oracle_authority", <<>>)
feed(marketId) == Pda("oracle_router", "feed", <<marketId>>)
engineConfig == Pda("perp_engine", "engine_config", <<>>)
market(marketId) == Pda("perp_engine", "market", <<marketId>>)
position(marketId, trader) == Pda("perp_engine", "position", <<marketId, trader>>)
engineAuthority == Pda("perp_engine", "engine_authority", <<>>)
engineOperator(operator) == Pda("perp_engine", "operator", <<operator>>)
queuedTx(txHash) == Pda("sur_timelock", "queued_tx", <<txHash>>)
collateralManagerAuthorityPda == Pda("collateral_manager", "collateral_manager_authority", <<>>)
collateralEscrowPda(mint) == Pda("collateral_manager", "escrow", <<mint>>)
tradingVaultAuthorityPda == Pda("trading_vault", "trading_vault_authority", <<>>)
vaultPda(vaultId) == Pda("trading_vault", "vault", <<vaultId>>)
orderSettlementAuthorityPda == Pda("order_settlement", "order_settlement_authority", <<>>)
noncePagePda(trader, pageIndex) == Pda("order_settlement", "nonce_page", <<trader, pageIndex>>)
orderCommitPda(commitHash) == Pda("order_settlement", "commit", <<commitHash>>)
liquidatorAuthorityPda == Pda("liquidator", "liquidator_authority", <<>>)
insuranceFundAuthorityPda == Pda("insurance_fund", "insurance_fund_authority", <<>>)
adlAuthorityPda == Pda("auto_deleveraging", "adl_authority", <<>>)

-----------------------------------------------------------------------------

S == INSTANCE ClientScene

Authorities ==
  [collateral_manager |-> collateralManagerAuthorityPda, liquidator |-> liquidatorAuthorityPda,
   trading_vault |-> tradingVaultAuthorityPda, order_settlement |-> orderSettlementAuthorityPda,
   auto_deleveraging |-> adlAuthorityPda, oracle_router |-> oracleAuthority,
   insurance_fund |-> insuranceFundAuthorityPda, a2a_darkpool |-> S!darkpoolAuthority]

Scene(program, trader, other, marketId, id) ==
  S!SceneOf(program, Authorities, S!Scene(trader, other, marketId, id))

Sends(ix, accounts) == [ix EXCEPT !.accounts = accounts, !.name = "web: " \o ix.name]

VaultAccounts(trader) ==
  <<Ro(engineAuthority), Ro(Program("perp_vault")), Ro(vaultConfig),
    Ro(vaultOperator(engineAuthority)), Rw(accountBalance(trader)),
    Rw(accountBalance(engineAuthority))>>

useOpenPosition(x, trader, marketId) ==
  Sends(OpenPosition([x EXCEPT !.operator = trader]),
    <<Ro(engineConfig), Rw(market(marketId)), Rw(position(marketId, trader)), Ro(trader),
      Ro(engineOperator(trader)), RwSg(trader), Ro(SystemProgram)>> \o VaultAccounts(trader))

useClosePosition(x, trader, marketId) ==
  Sends(ClosePosition([x EXCEPT !.operator = trader]),
    <<Ro(engineConfig), Rw(market(marketId)), Rw(position(marketId, trader)),
      Ro(engineOperator(trader)), Sg(trader)>> \o VaultAccounts(trader))

useDepositUSDC(x, depositor) ==
  Sends(VaultDeposit(x),
    <<Rw(vaultConfig), Rw(usdcVault), Rw(TokenAccount(depositor)), Rw(accountBalance(depositor)),
      RwSg(depositor), Ro(TokenProgram), Ro(SystemProgram)>>)

useWithdrawUSDC(x, withdrawer) ==
  Sends(VaultWithdraw(x),
    <<Rw(vaultConfig), Ro(vaultAuthority), Rw(usdcVault), Rw(TokenAccount(withdrawer)),
      Rw(accountBalance(withdrawer)), Sg(withdrawer), Ro(TokenProgram)>>)

\* Both darkpool hooks read the next id from the configuration, derive the new
\* account from what they read and send; the program derives it from the id of
\* the configuration when the transaction runs (x).
Offer(x, name) == CHOOSE ix \in DarkpoolOffers(x) : ix.name = name

usePostIntent(x, agent, nextIntentId) ==
  Sends(Offer([x EXCEPT !.agent = agent], "postIntent"),
    <<Rw(darkpoolConfig), Rw(intent(nextIntentId)), Rw(agentReputation(agent)), RwSg(agent),
      Ro(SystemProgram)>>)

useAcceptAndSettleIntent(x, responder, intentId, nextResponseId) ==
  Sends(Offer([x EXCEPT !.responder = responder, !.intent_id = intentId], "postResponse"),
    <<Rw(darkpoolConfig), Ro(intent(intentId)), Rw(response(nextResponseId)),
      Rw(agentReputation(responder)), RwSg(responder), Ro(SystemProgram)>>)
=============================================================================
