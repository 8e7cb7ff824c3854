---------------------------- MODULE AutoDeleveraging ---------------------------
(***************************************************************************)
(* auto_deleveraging: forced reduction of a winner when losses exceed the  *)
(* insurance fund.                                                         *)
(*                                                                         *)
(* An operator reads the position, the bad debt and the fund's balance off *)
(* chain and submits them as arguments; the program compares them with its *)
(* thresholds and calls the engine's open_position with the opposite size. *)
(* Between the reading and the instruction, anything may happen to the     *)
(* position, so what the operator saw is a variable of its own.  Of the    *)
(* clock the program uses the time since the last event, modelled up to    *)
(* the longest cooldown.                                                   *)
(***************************************************************************)
EXTENDS PerpEngine

CONSTANTS
    AdlAuthority,           \* the program's key among the engine's operators
    AdlOperators,           \* keys the owner may authorize
    AdlThresholds,          \* inputs: parameters the owner may set
    AdlCooldowns,
    BadDebts, FundBalances, \* inputs: what operators report
    ReduceSizes,
    MaxAdlEvents,           \* where the program's u64 event counter ends
    Nothing                 \* the operator has not read a position

ASSUME AdlAssumption ==
    /\ AdlAuthority \in Keys
    /\ AdlThresholds \cup BadDebts \cup FundBalances \cup ReduceSizes \subseteq U64
    /\ AdlCooldowns \subseteq Nat
    /\ \E c \in AdlCooldowns : \A d \in AdlCooldowns : d <= c
    /\ MaxAdlEvents \in Nat

VARIABLES
    adl_owner, adl_pending_owner, adl_operators,
    adl_paused, adl_enabled,
    min_bad_debt_threshold, adl_cooldown,
    since_adl,                          \* time since the last event
    total_adl_events, total_bad_debt_covered,
    sighting                            \* the operator's: market, trader, size as read

adl_roles == <<adl_owner, adl_pending_owner, adl_operators>>
adl_switches == <<adl_paused, adl_enabled, min_bad_debt_threshold, adl_cooldown>>
adl_record == <<since_adl, total_adl_events, total_bad_debt_covered>>
adl_vars == <<adl_roles, adl_switches, adl_record, sighting>>

LongestCooldown == CHOOSE c \in AdlCooldowns : \A d \in AdlCooldowns : d <= c

AdlTypeOK ==
    /\ adl_owner \in Keys /\ adl_pending_owner \in Keys \cup {NoKey}
    /\ adl_operators \subseteq AdlOperators
    /\ adl_paused \in BOOLEAN /\ adl_enabled \in BOOLEAN
    /\ min_bad_debt_threshold \in AdlThresholds /\ adl_cooldown \in AdlCooldowns
    /\ since_adl \in 0 .. LongestCooldown
    /\ total_adl_events \in 0 .. MaxAdlEvents /\ total_bad_debt_covered \in U64
    /\ sighting \in [market : Markets, trader : Traders, size : I64] \cup {Nothing}

AdlInit ==
    /\ adl_owner \in Keys /\ adl_pending_owner = NoKey /\ adl_operators = {}
    /\ adl_paused = FALSE /\ adl_enabled = TRUE
    /\ min_bad_debt_threshold \in AdlThresholds /\ adl_cooldown \in AdlCooldowns
    /\ since_adl = LongestCooldown
    /\ total_adl_events = 0 /\ total_bad_debt_covered = 0
    /\ sighting = Nothing

\* The operator reads a position.
Sight(m, t) ==
    /\ sighting' = [market |-> m, trader |-> t, size |-> position[m][t].size]
    /\ UNCHANGED <<vars, adl_roles, adl_switches, adl_record>>

--------------------------------------------------------------------------------
ReducingDeltaUncapped(position_size, reduce_size) ==    \* a mutant: not limited to the position
    IF position_size > 0 THEN -reduce_size ELSE reduce_size

\* Against the position, and at most all of it.
ReducingDelta(position_size, reduce_size) ==
    LET actual_reduce == AtMost(Abs(position_size), reduce_size)
    IN  IF position_size > 0 THEN -actual_reduce ELSE actual_reduce

ExecuteADL(op, m, t, position_size, reduce_size, mark_price, bad_debt_amount, fund_balance) ==
    /\ op \in adl_operators
    /\ ~ adl_paused
    /\ adl_enabled
    /\ since_adl >= adl_cooldown
    /\ fund_balance < min_bad_debt_threshold
    /\ bad_debt_amount >= min_bad_debt_threshold
    /\ position_size # 0
    /\ AtMost(Abs(position_size), reduce_size) <= MaxI64
    /\ OpenPosition(AdlAuthority, m, t, ReducingDelta(position_size, reduce_size), mark_price)
    /\ total_adl_events < MaxAdlEvents
    /\ total_bad_debt_covered + bad_debt_amount <= MaxU64
    /\ since_adl' = 0
    /\ total_adl_events' = total_adl_events + 1
    /\ total_bad_debt_covered' = total_bad_debt_covered + bad_debt_amount
    /\ UNCHANGED <<adl_roles, adl_switches>>

\* The operator submits what it read, once.
SubmitADL(op) ==
    /\ sighting # Nothing
    /\ sighting' = Nothing
    /\ \E reduce_size \in ReduceSizes, price \in Prices, debt \in BadDebts, fund \in FundBalances :
          ExecuteADL(op, sighting.market, sighting.trader, sighting.size, reduce_size,
                     price, debt, fund)

--------------------------------------------------------------------------------
SetAdlOperator(key, op, status) ==
    /\ key = adl_owner
    /\ adl_operators' = IF status THEN adl_operators \cup {op} ELSE adl_operators \ {op}
    /\ UNCHANGED <<vars, adl_owner, adl_pending_owner, adl_switches, adl_record, sighting>>

PauseAdl(key, status) ==
    /\ key = adl_owner
    /\ adl_paused' = status
    /\ UNCHANGED <<vars, adl_roles, adl_enabled, min_bad_debt_threshold, adl_cooldown,
                   adl_record, sighting>>

SetAdlEnabled(key, enabled) ==
    /\ key = adl_owner
    /\ adl_enabled' = enabled
    /\ UNCHANGED <<vars, adl_roles, adl_paused, min_bad_debt_threshold, adl_cooldown,
                   adl_record, sighting>>

SetAdlParams(key, threshold, cooldown) ==
    /\ key = adl_owner
    /\ min_bad_debt_threshold' = threshold /\ adl_cooldown' = cooldown
    /\ UNCHANGED <<vars, adl_roles, adl_paused, adl_enabled, adl_record, sighting>>

TransferAdl(key, new_owner) ==
    /\ key = adl_owner
    /\ adl_pending_owner' = new_owner
    /\ UNCHANGED <<vars, adl_owner, adl_operators, adl_switches, adl_record, sighting>>

AcceptAdl(key) ==
    /\ key = adl_pending_owner
    /\ adl_owner' = key /\ adl_pending_owner' = NoKey
    /\ UNCHANGED <<vars, adl_operators, adl_switches, adl_record, sighting>>

AdlTick ==
    /\ since_adl' = AtMost(since_adl + 1, LongestCooldown)
    /\ UNCHANGED <<vars, adl_roles, adl_switches, total_adl_events, total_bad_debt_covered,
                   sighting>>

AdlOwnerStep ==
    \E key \in Keys :
        \/ \E op \in AdlOperators, status \in BOOLEAN : SetAdlOperator(key, op, status)
        \/ \E flag \in BOOLEAN : PauseAdl(key, flag) \/ SetAdlEnabled(key, flag)
        \/ \E threshold \in AdlThresholds, cooldown \in AdlCooldowns :
              SetAdlParams(key, threshold, cooldown)
        \/ \E new_owner \in Keys : TransferAdl(key, new_owner)
        \/ AcceptAdl(key)

AdlStep ==
    \/ \E m \in Markets, t \in Traders : Sight(m, t)
    \/ \E op \in AdlOperators : SubmitADL(op)
    \/ AdlOwnerStep
    \/ AdlTick

--------------------------------------------------------------------------------
(* Properties *)

Deleverages == total_adl_events' # total_adl_events

\* As long as the position still has the sign and at least the size the
\* operator read, deleveraging only shrinks it: never past zero, never at a
\* cost to the trader's row, whatever the operator asks to reduce.
FreshReduces ==
    [][Deleverages =>
          LET m == sighting.market
              t == sighting.trader
              old == position[m][t].size
              new == position'[m][t].size
          IN  Sign(old) = Sign(sighting.size) /\ Abs(old) >= Abs(sighting.size)
              => /\ Abs(new) < Abs(old) /\ Sign(new) \in {0, Sign(old)}
                 /\ ledger' = ledger]_<<vars, adl_vars>>
================================================================================
