--------------------------- MODULE SurTimelockProofs ---------------------------
(***************************************************************************)
(* The timelock keeps its promise for every set of operations and keys,    *)
(* every minimum and maximum delay and every grace period.                 *)
(***************************************************************************)
EXTENDS SurTimelock, TLAPS

\* Every entry waits a legal delay from when it was queued, whatever the
\* delay is now.
EntriesWait ==
    \A op \in Ops : queue[op] # NotQueued =>
        queue[op].eta - queue[op].queued_at \in MIN_DELAY .. MAX_DELAY

IInv == TypeOK /\ EntriesWait

EntryRecord == [eta : Nat, queued_at : Nat]

LEMMA EntryIsNotNothing == NotQueued \notin EntryRecord /\ NotQueued \notin Nat
<1>1. EntryRecord = [eta : Nat, queued_at : Nat]
    BY DEF EntryRecord
<1>2. NotQueued \notin [eta : Nat, queued_at : Nat]
    BY Zenon, TimelockAssumption
<1>3. NotQueued \notin EntryRecord
    BY Zenon, <1>1, <1>2
<1>4. NotQueued \notin Nat
    BY Zenon, TimelockAssumption
<1>5. QED
    BY Zenon, <1>3, <1>4

LEMMA InitIInv == Init => IInv
<1> SUFFICES ASSUME Init PROVE IInv
    OBVIOUS
<1>1. delay \in MIN_DELAY .. MAX_DELAY
    BY TimelockAssumption DEF Init, LegalDelay
<1>2. /\ queue \in [Ops -> EntryRecord \cup {NotQueued}]
      /\ \A op \in Ops : queue[op] = NotQueued
      /\ dispatched \in [Ops -> Nat]
    BY DEF Init
<1>3. TypeOK
    BY <1>1, <1>2 DEF Init, TypeOK, EntryRecord
<1>4. EntriesWait
    BY <1>2 DEF EntriesWait
<1>5. QED
    BY <1>3, <1>4 DEF IInv

LEMMA QueueFacts ==
    ASSUME IInv, NEW key, NEW op \in Ops, QueueTransaction(key, op)
    PROVE  IInv'
<1> DEFINE entry == [eta |-> now + delay, queued_at |-> now]
<1>1. /\ queue' = [queue EXCEPT ![op] = entry]
      /\ UNCHANGED <<roles, settings, dispatched, now>>
    BY DEF QueueTransaction
<1>2. now \in Nat /\ delay \in Nat /\ delay \in MIN_DELAY .. MAX_DELAY
      /\ queue \in [Ops -> EntryRecord \cup {NotQueued}]
    BY TimelockAssumption DEF IInv, TypeOK, EntryRecord
<1>3. entry \in EntryRecord /\ entry.eta - entry.queued_at = delay
    BY <1>2 DEF EntryRecord
<1> HIDE DEF entry
<1>4. queue' \in [Ops -> EntryRecord \cup {NotQueued}]
      /\ \A o \in Ops : queue'[o] = IF o = op THEN entry ELSE queue[o]
    BY <1>1, <1>2, <1>3
<1>5. TypeOK'
    BY <1>1, <1>4 DEF IInv, TypeOK, roles, settings, EntryRecord
<1>6. EntriesWait'
    BY <1>2, <1>3, <1>4 DEF IInv, EntriesWait
<1>7. QED
    BY <1>5, <1>6 DEF IInv

\* Dispatching and cancelling both remove one entry.
LEMMA RemovalFacts ==
    ASSUME IInv, NEW op \in Ops,
           queue' = [queue EXCEPT ![op] = NotQueued],
           dispatched' \in [Ops -> Nat],
           UNCHANGED <<roles, settings, now>>
    PROVE  IInv'
<1>1. /\ queue' \in [Ops -> EntryRecord \cup {NotQueued}]
      /\ \A o \in Ops : queue'[o] = IF o = op THEN NotQueued ELSE queue[o]
    BY DEF IInv, TypeOK, EntryRecord
<1>2. TypeOK'
    BY <1>1 DEF IInv, TypeOK, roles, settings, EntryRecord
<1>3. EntriesWait'
    BY <1>1 DEF IInv, EntriesWait
<1>4. QED
    BY <1>2, <1>3 DEF IInv

LEMMA NextIInv == IInv /\ [Next]_vars => IInv'
<1> SUFFICES ASSUME IInv, [Next]_vars PROVE IInv'
    OBVIOUS
<1>1. ASSUME NEW key \in Keys, NEW op \in Ops, QueueTransaction(key, op) PROVE IInv'
    BY <1>1, QueueFacts
<1>2. ASSUME NEW key \in Keys, NEW op \in Ops, ExecuteTransaction(key, op) PROVE IInv'
    <2>1. dispatched' \in [Ops -> Nat]
        BY <1>2 DEF ExecuteTransaction, IInv, TypeOK
    <2>2. QED
        BY <1>2, <2>1, RemovalFacts DEF ExecuteTransaction
<1>3. ASSUME NEW key \in Keys, NEW op \in Ops, CancelTransaction(key, op) PROVE IInv'
    <2>1. dispatched' \in [Ops -> Nat]
        BY <1>3 DEF CancelTransaction, IInv, TypeOK
    <2>2. QED
        BY <1>3, <2>1, RemovalFacts DEF CancelTransaction
<1>4. CASE \E key \in Keys :
              \/ \E new_delay \in Delays : SetDelay(key, new_delay)
              \/ \E new_key \in Keys : TransferOwnership(key, new_key) \/ SetGuardian(key, new_key)
              \/ AcceptOwnership(key)
              \/ \E target \in Targets, status \in BOOLEAN : SetPausableTarget(key, target, status)
              \/ CompleteSetup(key)
    <2>1. UNCHANGED <<queue, dispatched, now>>
        BY <1>4 DEF SetDelay, TransferOwnership, SetGuardian, AcceptOwnership,
                    SetPausableTarget, CompleteSetup
    <2>2. /\ owner' \in Keys /\ pending_owner' \in Keys \cup {NoKey} /\ guardian' \in Keys
          /\ setup_complete' \in BOOLEAN /\ pausable' \subseteq Targets
        BY <1>4 DEF IInv, TypeOK, SetDelay, TransferOwnership, SetGuardian, AcceptOwnership,
                    SetPausableTarget, CompleteSetup, roles, settings
    <2>3. delay' \in MIN_DELAY .. MAX_DELAY
        BY <1>4, TimelockAssumption DEF IInv, TypeOK, SetDelay, TransferOwnership, SetGuardian,
                    AcceptOwnership, SetPausableTarget, CompleteSetup, roles, settings, LegalDelay
    <2>4. TypeOK'
        BY <2>1, <2>2, <2>3 DEF IInv, TypeOK
    <2>5. QED
        BY <2>1, <2>4 DEF IInv, EntriesWait
<1>5. CASE Tick \/ UNCHANGED vars
    <2>1. UNCHANGED <<roles, settings, queue, dispatched>> /\ now' \in Nat
        BY <1>5 DEF Tick, vars, IInv, TypeOK
    <2>2. TypeOK'
        BY <2>1 DEF IInv, TypeOK, roles, settings
    <2>3. QED
        BY <2>1, <2>2 DEF IInv, EntriesWait
<1>6. QED
    BY <1>1, <1>2, <1>3, <1>4, <1>5 DEF Next

LEMMA Invariance == Spec => []IInv
BY InitIInv, NextIInv, PTL DEF Spec

\* The delay stays within its limits, and every entry is well formed.
THEOREM TimelockTypes == Spec => []TypeOK
BY Invariance, PTL DEF IInv

--------------------------------------------------------------------------------
(* The refinement *)

LEMMA InitRefines == Init => Promise!Init
BY DEF Init, Promise!Init, announced

\* The mapping of one step that changes one entry.
LEMMA AnnouncedUpdate ==
    ASSUME IInv, NEW op \in Ops, NEW entry \in EntryRecord \cup {NotQueued},
           queue' = [queue EXCEPT ![op] = entry]
    PROVE  announced' = [announced EXCEPT ![op] =
                             IF entry = NotQueued THEN NotQueued ELSE entry.queued_at]
BY DEF IInv, TypeOK, announced

LEMMA StepRefines == IInv /\ [Next]_vars => [Promise!Next]_Promise!vars
<1> SUFFICES ASSUME IInv, [Next]_vars PROVE Promise!Next \/ UNCHANGED Promise!vars
    OBVIOUS
<1>1. ASSUME NEW key \in Keys, NEW op \in Ops, QueueTransaction(key, op)
      PROVE  Promise!Announce(op)
    <2> DEFINE entry == [eta |-> now + delay, queued_at |-> now]
    <2>1. entry \in EntryRecord /\ entry.queued_at = now
        BY TimelockAssumption DEF IInv, TypeOK, EntryRecord
    <2>2. queue' = [queue EXCEPT ![op] = entry] /\ queue[op] = NotQueued
          /\ UNCHANGED <<dispatched, now>>
        BY <1>1 DEF QueueTransaction
    <2> HIDE DEF entry
    <2>3. entry # NotQueued
        BY <2>1, EntryIsNotNothing
    <2>4. announced' = [announced EXCEPT ![op] = now]
        BY <2>1, <2>2, <2>3, AnnouncedUpdate
    <2>5. QED
        BY <2>2, <2>4 DEF Promise!Announce, announced
<1>2. ASSUME NEW key \in Keys, NEW op \in Ops, ExecuteTransaction(key, op)
      PROVE  Promise!Make(op)
    <2>1. /\ queue[op] # NotQueued
          /\ queue[op].eta <= now /\ now <= queue[op].eta + GRACE_PERIOD
          /\ queue' = [queue EXCEPT ![op] = NotQueued]
          /\ dispatched' = [dispatched EXCEPT ![op] = @ + 1]
          /\ UNCHANGED now
        BY <1>2 DEF ExecuteTransaction
    <2>2. announced' = [announced EXCEPT ![op] = NotQueued]
        BY <2>1, AnnouncedUpdate
    <2>3. /\ queue[op].eta \in Nat /\ queue[op].queued_at \in Nat /\ now \in Nat
          /\ queue[op].eta - queue[op].queued_at \in MIN_DELAY .. MAX_DELAY
        BY <2>1 DEF IInv, TypeOK, EntriesWait
    <2>4. /\ announced[op] = queue[op].queued_at
          /\ announced[op] # NotQueued
        BY <2>1, <2>3, EntryIsNotNothing DEF announced
    <2>5. now - announced[op] \in MIN_DELAY .. MAX_DELAY + GRACE_PERIOD
        BY <2>1, <2>3, <2>4, TimelockAssumption
    <2>6. QED
        BY <2>1, <2>2, <2>4, <2>5 DEF Promise!Make
<1>3. ASSUME NEW key \in Keys, NEW op \in Ops, CancelTransaction(key, op)
      PROVE  Promise!Withdraw(op)
    <2>1. /\ queue[op] # NotQueued
          /\ queue' = [queue EXCEPT ![op] = NotQueued]
          /\ UNCHANGED <<dispatched, now>>
        BY <1>3 DEF CancelTransaction
    <2>2. announced' = [announced EXCEPT ![op] = NotQueued]
        BY <2>1, AnnouncedUpdate
    <2>3. announced[op] # NotQueued
        BY <2>1, EntryIsNotNothing DEF announced, IInv, TypeOK, EntryRecord
    <2>4. QED
        BY <2>1, <2>2, <2>3 DEF Promise!Withdraw
<1>4. CASE \E key \in Keys :
              \/ \E new_delay \in Delays : SetDelay(key, new_delay)
              \/ \E new_key \in Keys : TransferOwnership(key, new_key) \/ SetGuardian(key, new_key)
              \/ AcceptOwnership(key)
              \/ \E target \in Targets, status \in BOOLEAN : SetPausableTarget(key, target, status)
              \/ CompleteSetup(key)
    <2>1. UNCHANGED <<queue, dispatched, now>>
        BY <1>4 DEF SetDelay, TransferOwnership, SetGuardian, AcceptOwnership,
                    SetPausableTarget, CompleteSetup
    <2>2. QED
        BY <2>1 DEF Promise!vars, announced
<1>5. CASE Tick
    BY <1>5 DEF Tick, Promise!Next, Promise!Advance, announced, IInv, TypeOK
<1>6. CASE UNCHANGED vars
    BY <1>6 DEF vars, Promise!vars, announced
<1>7. QED
    BY <1>1, <1>2, <1>3, <1>4, <1>5, <1>6 DEF Next, Promise!Next

\* The timelock refines the embargo: once per announcement, never early,
\* never after the grace period.
THEOREM TimelockImplementsEmbargo == Spec => ImplementsEmbargo
BY InitRefines, StepRefines, Invariance, PTL DEF Spec, ImplementsEmbargo, Promise!Spec
================================================================================
