----------------------------- MODULE MCSurTimelock -----------------------------
(* Small instances of SurTimelock: delays of one to two clock steps.        *)
EXTENDS SurTimelock

CONSTANTS alice, bob, upgrade, retune, engine
================================================================================
