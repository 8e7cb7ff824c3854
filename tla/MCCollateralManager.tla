-------------------------- MODULE MCCollateralManager --------------------------
(***************************************************************************)
(* A small instance of CollateralManager, after the deployment has         *)
(* authorized every program at the vault.                                  *)
(***************************************************************************)
EXTENDS CollateralManager

\* Nobody holds USDC: deposits and withdrawals of USDC are PerpVault's runs.
NoWallets == [a \in Accounts |-> 0]
================================================================================
