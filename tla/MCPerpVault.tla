------------------------------ MODULE MCPerpVault ------------------------------
(***************************************************************************)
(* Small instances of PerpVault.                                           *)
(***************************************************************************)
EXTENDS PerpVault, TLC

CONSTANT WalletEach     \* USDC every trader starts with

MCWallet == [a \in Accounts |-> WalletEach]

\* Owners and operators are interchangeable keys.
KeySymmetry == Permutations(Keys)
================================================================================
