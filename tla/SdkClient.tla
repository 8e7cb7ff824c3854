----------------------------- MODULE SdkClient -----------------------------
(***************************************************************************)
(* The addresses the SDK derives, one definition per helper of its         *)
(* pdas.ts, and the scene they make.                                       *)
(***************************************************************************)
EXTENDS Interfaces

vaultConfig == Pda("perp_vault", "vault_config", <<>>)
usdcVault == Pda("perp_vault", "usdc_vault", <<>>)
accountBalance(trader) == Pda("perp_vault", "balance", <<trader>>)
vaultOperator(operator) == Pda("perp_vault", "operator", <<operator>>)
oracleAuthority == Pda("oracle_router", "oracle_authority", <<>>)
feed(marketId) == Pda("oracle_router", "feed", <<marketId>>)
engineConfig == Pda("perp_engine", "engine_config", <<>>)
market(marketId) == Pda("perp_engine", "market", <<marketId>>)
position(marketId, trader) == Pda("perp_engine", "position", <<marketId, trader>>)
engineAuthority == Pda("perp_engine", "engine_authority", <<>>)
engineOperator(operator) == Pda("perp_engine", "operator", <<operator>>)
queuedTx(txHash) == Pda("sur_timelock", "queued_tx", <<txHash>>)
collateralManagerAuthorityPda == Pda("collateral_manager", "collateral_manager_authority", <<>>)
collateralEscrowPda(mint) == Pda("collateral_manager", "escrow", <<mint>>)
tradingVaultAuthorityPda == Pda("trading_vault", "trading_vault_authority", <<>>)
vaultPda(vaultId) == Pda("trading_vault", "vault", <<vaultId>>)
orderSettlementAuthorityPda == Pda("order_settlement", "order_settlement_authority", <<>>)
noncePagePda(trader, pageIndex) == Pda("order_settlement", "nonce_page", <<trader, pageIndex>>)
orderCommitPda(commitHash) == Pda("order_settlement", "commit", <<commitHash>>)
liquidatorAuthorityPda == Pda("liquidator", "liquidator_authority", <<>>)
insuranceFundAuthorityPda == Pda("insurance_fund", "insurance_fund_authority", <<>>)
adlAuthorityPda == Pda("auto_deleveraging", "adl_authority", <<>>)

-----------------------------------------------------------------------------

S == INSTANCE ClientScene

Authorities ==
  [collateral_manager |-> collateralManagerAuthorityPda, liquidator |-> liquidatorAuthorityPda,
   trading_vault |-> tradingVaultAuthorityPda, order_settlement |-> orderSettlementAuthorityPda,
   auto_deleveraging |-> adlAuthorityPda, oracle_router |-> oracleAuthority,
   insurance_fund |-> insuranceFundAuthorityPda, a2a_darkpool |-> S!darkpoolAuthority]

Scene(program, trader, other, marketId, id) ==
  S!SceneOf(program, Authorities, S!Scene(trader, other, marketId, id))

=============================================================================
