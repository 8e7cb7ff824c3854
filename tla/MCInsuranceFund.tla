---------------------------- MODULE MCInsuranceFund ----------------------------
(* Small instances of InsuranceFund.                                       *)
EXTENDS InsuranceFund

CONSTANTS alice, bob
================================================================================
