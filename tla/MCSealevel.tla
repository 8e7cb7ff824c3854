----------------------------- MODULE MCSealevel -----------------------------
(***************************************************************************)
(* Every instruction of the eleven programs, once with the addresses of    *)
(* the web client and the trading ones again with those of the SDK for two *)
(* other traders, and the transactions of the web hooks, any two at a time. *)
(***************************************************************************)
EXTENDS Execution, Sealevel

W == INSTANCE WebClient
K == INSTANCE SdkClient

Alice == Wallet("alice")
Bob == Wallet("bob")
Carol == Wallet("carol")
Dave == Wallet("dave")
BTC == <<"market", "BTC">>
Id1 == <<"id", "1">>
Id2 == <<"id", "2">>

WebScene(program) == W!Scene(program, Alice, Bob, BTC, Id1)
SdkScene(program) == K!Scene(program, Carol, Dave, BTC, Id2)

\* A queued pause of the vault, whose owner is the timelock, and a queued delay
\* change of the timelock itself.
Dispatched ==
  {ix \in VaultAdmin([WebScene("perp_vault") EXCEPT !.owner = timelock_TimelockAuthority]) :
     ix.name = "pause"}
    \cup {ix \in TimelockAdmin([WebScene("sur_timelock") EXCEPT !.owner = timelock_TimelockAuthority]) :
            ix.name = "setDelay"}

Executions ==
  {ExecuteTransaction([f \in DOMAIN WebScene("sur_timelock") \cup {"dispatched"} |->
                         IF f = "dispatched" THEN d ELSE WebScene("sur_timelock")[f]]) :
     d \in Dispatched}

Every(scene(_)) ==
  VaultInstructions(scene("perp_vault")) \cup EngineInstructions(scene("perp_engine"))
    \cup OracleInstructions(scene("oracle_router"))
    \cup LiquidatorInstructions(scene("liquidator"))
    \cup AdlInstructions(scene("auto_deleveraging"))
    \cup FundInstructions(scene("insurance_fund"))
    \cup TimelockInstructions(scene("sur_timelock"))
    \cup CollateralInstructions(scene("collateral_manager"))
    \cup SettlementInstructions(scene("order_settlement"))
    \cup DarkpoolInstructions(scene("a2a_darkpool"))
    \cup TradingVaultInstructions(scene("trading_vault"))

Darkpool == WebScene("a2a_darkpool")

Hooks ==
  {W!useOpenPosition(WebScene("perp_engine"), Alice, BTC),
   W!useClosePosition(WebScene("perp_engine"), Alice, BTC),
   W!useDepositUSDC(WebScene("perp_vault"), Alice),
   W!useWithdrawUSDC(WebScene("perp_vault"), Alice),
   W!usePostIntent(Darkpool, Alice, Id1),
   W!useAcceptAndSettleIntent(Darkpool, Bob, Id1, Id1)}

\* The same darkpool hooks when another agent's transaction came in between.
LateHooks ==
  {W!usePostIntent([Darkpool EXCEPT !.config_nextIntentId = Id2], Alice, Id1),
   W!useAcceptAndSettleIntent([Darkpool EXCEPT !.config_nextResponseId = Id2], Bob, Id1, Id1)}

Sent == [web |-> Every(WebScene) \cup Executions \cup Hooks,
         late |-> LateHooks,
         sdk |-> {ix \in Every(SdkScene) : ix.calls # <<>>}]

\* A transaction is named by its client, program and instruction.
Names(client) == {<<client, ix.program, ix.name>> : ix \in Sent[client]}
MCTransactions == LET names == UNION {Names(client) : client \in DOMAIN Sent} IN names
MCOutdated == LET names == Names("late") IN names

Instruction ==
  [t \in MCTransactions |-> CHOOSE ix \in Sent[t[1]] : ix.program = t[2] /\ ix.name = t[3]]

NamedKeys == [t \in MCTransactions |-> Listed(Instruction[t].accounts)]
WriteKeys == [t \in MCTransactions |-> Writable(Instruction[t].accounts)]
LegalTx == [t \in MCTransactions |-> IxLegal(Instruction[t])]
StoredWrites == [l \in Lanes, t \in MCTransactions |-> IxStored(l, Instruction[t])]
IntendedWrites == [l \in Lanes, t \in MCTransactions |-> IxIntended(l, Instruction[t])]

Senders == Permutations(Lanes)

\* The tables, looked up.  (TLC's cost statistics do not descend into a LET: the
\* tables are large expressions, and evaluated once.)
MCNamed(t) == LET keys == NamedKeys[t] IN keys
MCWrites(t) == LET keys == WriteKeys[t] IN keys
MCLegal(t) == LET legal == LegalTx[t] IN legal
MCStored(l, t) == LET writes == StoredWrites[l, t] IN writes
MCIntended(l, t) == LET writes == IntendedWrites[l, t] IN writes
=============================================================================
