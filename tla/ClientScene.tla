---------------------------- MODULE ClientScene ----------------------------
(***************************************************************************)
(* The arguments and free accounts a client puts together for every        *)
(* instruction, from the address helpers of its pdas.ts (the constants).   *)
(* trader and other are the two sides of a trade; the trader is also the   *)
(* keeper, depositor, manager and agent of the instructions that have one. *)
(***************************************************************************)
EXTENDS Interfaces

CONSTANTS vaultConfig, usdcVault, engineConfig, engineAuthority,
          market(_), position(_, _), feed(_), queuedTx(_), accountBalance(_),
          vaultOperator(_), engineOperator(_), collateralEscrowPda(_), vaultPda(_),
          noncePagePda(_, _), orderCommitPda(_), insuranceFundAuthorityPda

\* The helpers have no address for this one: clients derive it where they need it.
darkpoolAuthority == Pda("a2a_darkpool", "darkpool_authority", <<>>)

Scene(trader, other, marketId, id) ==
  [owner |-> Wallet("owner"), pendingOwner |-> Wallet("next owner"),
   operator |-> Wallet("operator"), guardian |-> Wallet("guardian"), payer |-> trader,
   trader |-> trader, traderAccount |-> trader, depositor |-> trader, withdrawer |-> trader,
   keeper |-> trader, manager |-> trader, agent |-> trader, responder |-> other,
   intent_agent |-> trader, response_agent |-> other, intentCreator |-> trader,
   buyerTrader |-> trader, sellerTrader |-> other, makerTrader |-> trader, takerTrader |-> other,
   fromBalance_trader |-> trader, toBalance_trader |-> other,
   feeRecipient |-> Wallet("fees"), newRecipient |-> Wallet("fees"),
   marketId |-> marketId, mint |-> <<"mint", "wSOL">>, collateral_mint |-> <<"mint", "wSOL">>,
   intent_id |-> id, response_id |-> id, config_nextIntentId |-> id,
   config_nextResponseId |-> id, vault_id |-> id, vaultId |-> id, page |-> id,
   txHash |-> id, commitHash |-> id, target |-> id, pausableTarget_target |-> id,
   vaultProgram |-> Program("perp_vault"), perpVaultProgram |-> Program("perp_vault"),
   perpVault |-> Program("perp_vault"), vault |-> Program("perp_vault"),
   perpEngineProgram |-> Program("perp_engine"), perpEngine |-> Program("perp_engine"),
   oracleRouter |-> Program("oracle_router"), insuranceFund |-> Program("insurance_fund"),
   tokenProgram |-> TokenProgram,
   vaultConfig |-> vaultConfig, perpVaultConfig |-> vaultConfig, usdcVault |-> usdcVault,
   usdcMint |-> <<"mint", "USDC">>,
   engineConfig |-> engineConfig, perpEngineConfig |-> engineConfig,
   engineAuthority |-> engineAuthority, engineVaultOperator |-> vaultOperator(engineAuthority),
   enginePoolBalance |-> accountBalance(engineAuthority),
   market |-> market(marketId), engineMarket |-> market(marketId), feed |-> feed(marketId),
   position |-> position(marketId, trader), enginePosition |-> position(marketId, trader),
   buyerPosition |-> position(marketId, trader), sellerPosition |-> position(marketId, other),
   makerPosition |-> position(marketId, trader), takerPosition |-> position(marketId, other),
   traderBalance |-> accountBalance(trader), keeperBalance |-> accountBalance(other),
   buyerBalance |-> accountBalance(trader), sellerBalance |-> accountBalance(other),
   makerBalance |-> accountBalance(trader), takerBalance |-> accountBalance(other),
   depositorBalance |-> accountBalance(trader), managerBalance |-> accountBalance(other),
   vaultBalance |-> accountBalance(vaultPda(id)),
   feeRecipientBalance |-> accountBalance(Wallet("fees")),
   makerNoncePage |-> noncePagePda(trader, id), takerNoncePage |-> noncePagePda(other, id),
   makerSnapshot |-> orderCommitPda(id), takerSnapshot |-> orderCommitPda(<<"id", "none">>),
   escrow |-> collateralEscrowPda(<<"mint", "wSOL">>), queued |-> queuedTx(id),
   userUsdc |-> TokenAccount(trader), traderToken |-> TokenAccount(trader),
   authorityUsdc |-> TokenAccount(Wallet("owner")),
   insuranceFundBalance |-> accountBalance(insuranceFundAuthorityPda),
   fundPoolBalance |-> accountBalance(insuranceFundAuthorityPda),
   fromBalance |-> accountBalance(insuranceFundAuthorityPda), toBalance |-> accountBalance(trader),
   vaultOperatorAccount |-> vaultOperator(Wallet("operator")),
   engineOperatorAccount |-> engineOperator(Wallet("operator"))]

\* The operator accounts an instruction's own authority was given in the vault and the engine.
As(authority, scene) ==
  [scene EXCEPT !.vaultOperatorAccount = vaultOperator(authority),
                !.engineOperatorAccount = engineOperator(authority)]

\* A trading vault trades for itself: the position is its own.
Trading(scene) == [scene EXCEPT !.position = position(scene.marketId, vaultPda(scene.vault_id))]

SceneOf(program, authorities, scene) ==
  CASE program = "trading_vault" -> Trading(As(authorities[program], scene))
    [] program \in DOMAIN authorities \ {"trading_vault"} -> As(authorities[program], scene)
    [] OTHER -> scene
=============================================================================
