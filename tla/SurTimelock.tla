------------------------------ MODULE SurTimelock ------------------------------
(***************************************************************************)
(* sur_timelock: operations queued by the owner, dispatched after a delay. *)
(*                                                                         *)
(* An operation is a target, its instruction and its accounts; the program *)
(* keys a queue entry by the hash of the three, recomputes it at dispatch, *)
(* and so tells operations apart exactly.  The dispatched call is made     *)
(* inside execute_transaction: if the target refuses, nothing happens and  *)
(* the entry stays.  The owner may be replaced, the delay changed and an   *)
(* entry cancelled and queued again at any moment.  emergency_pause emits  *)
(* an event and changes nothing, so it is not an action.                   *)
(***************************************************************************)
EXTENDS Integers

CONSTANTS
    Ops,                \* operations that can be queued
    Targets,            \* programs that can be marked pausable
    Keys, NoKey,
    MIN_DELAY, MAX_DELAY, GRACE_PERIOD,
    Delays,             \* inputs: delays an owner asks for, legal or not
    MaxNow,             \* bound on the clock
    MaxDispatches,      \* bound on the dispatches of one operation
    NotQueued           \* there is no queue entry

ASSUME TimelockAssumption ==
    /\ NoKey \notin Keys
    /\ MIN_DELAY \in Nat /\ MAX_DELAY \in Nat /\ GRACE_PERIOD \in Nat
    /\ Delays \subseteq Int
    /\ MaxNow \in Nat /\ MaxDispatches \in Nat
    /\ NotQueued \notin Nat /\ NotQueued \notin [eta : Nat, queued_at : Nat]

VARIABLES
    owner, pending_owner, guardian,
    delay, setup_complete,
    pausable,       \* targets marked pausable
    queue,          \* the queue entries, with the history of when each was queued
    dispatched,     \* history: how often each operation was dispatched
    now

roles == <<owner, pending_owner, guardian>>
settings == <<delay, setup_complete, pausable>>
vars == <<roles, settings, queue, dispatched, now>>

LegalDelay(d) == MIN_DELAY <= d /\ d <= MAX_DELAY

TypeOK ==
    /\ owner \in Keys /\ pending_owner \in Keys \cup {NoKey} /\ guardian \in Keys
    /\ delay \in MIN_DELAY .. MAX_DELAY
    /\ setup_complete \in BOOLEAN
    /\ pausable \subseteq Targets
    /\ queue \in [Ops -> [eta : Nat, queued_at : Nat] \cup {NotQueued}]
    /\ dispatched \in [Ops -> Nat]
    /\ now \in Nat

Init ==
    /\ owner \in Keys /\ pending_owner = NoKey /\ guardian \in Keys
    /\ delay \in Delays /\ LegalDelay(delay)
    /\ setup_complete = FALSE
    /\ pausable = {}
    /\ queue = [op \in Ops |-> NotQueued]
    /\ dispatched = [op \in Ops |-> 0]
    /\ now = 0

--------------------------------------------------------------------------------
(* The queue *)

QueueTransaction(key, op) ==
    /\ key = owner
    /\ queue[op] = NotQueued
    /\ queue' = [queue EXCEPT ![op] = [eta |-> now + delay, queued_at |-> now]]
    /\ UNCHANGED <<roles, settings, dispatched, now>>

ExecuteTransactionKeepsEntry(key, op) ==    \* a mutant: the entry is not closed
    /\ key = owner
    /\ queue[op] # NotQueued
    /\ queue[op].eta <= now /\ now <= queue[op].eta + GRACE_PERIOD
    /\ dispatched' = [dispatched EXCEPT ![op] = @ + 1]
    /\ UNCHANGED <<roles, settings, queue, now>>

ExecuteTransaction(key, op) ==
    /\ key = owner
    /\ queue[op] # NotQueued
    /\ queue[op].eta <= now
    /\ now <= queue[op].eta + GRACE_PERIOD
    /\ queue' = [queue EXCEPT ![op] = NotQueued]
    /\ dispatched' = [dispatched EXCEPT ![op] = @ + 1]
    /\ UNCHANGED <<roles, settings, now>>

CancelTransaction(key, op) ==
    /\ key = owner
    /\ queue[op] # NotQueued
    /\ queue' = [queue EXCEPT ![op] = NotQueued]
    /\ UNCHANGED <<roles, settings, dispatched, now>>

--------------------------------------------------------------------------------
(* The owner's setters, none of which is delayed itself *)

\* Entries already queued keep their eta.
SetDelay(key, new_delay) ==
    /\ key = owner
    /\ LegalDelay(new_delay)
    /\ delay' = new_delay
    /\ UNCHANGED <<roles, setup_complete, pausable, queue, dispatched, now>>

TransferOwnership(key, new_owner) ==
    /\ key = owner
    /\ pending_owner' = new_owner
    /\ UNCHANGED <<owner, guardian, settings, queue, dispatched, now>>

AcceptOwnership(key) ==
    /\ key = pending_owner
    /\ owner' = pending_owner
    /\ pending_owner' = NoKey
    /\ UNCHANGED <<guardian, settings, queue, dispatched, now>>

SetGuardian(key, new_guardian) ==
    /\ key = owner
    /\ guardian' = new_guardian
    /\ UNCHANGED <<owner, pending_owner, settings, queue, dispatched, now>>

SetPausableTarget(key, target, status) ==
    /\ key = owner
    /\ pausable' = IF status THEN pausable \cup {target} ELSE pausable \ {target}
    /\ UNCHANGED <<roles, delay, setup_complete, queue, dispatched, now>>

CompleteSetup(key) ==
    /\ key = owner
    /\ setup_complete' = TRUE
    /\ UNCHANGED <<roles, delay, pausable, queue, dispatched, now>>

--------------------------------------------------------------------------------
Tick ==
    /\ now < MaxNow
    /\ now' = now + 1
    /\ UNCHANGED <<roles, settings, queue, dispatched>>

Next ==
    \/ \E key \in Keys :
          \/ \E op \in Ops :
                \/ QueueTransaction(key, op)
                \/ dispatched[op] < MaxDispatches /\ ExecuteTransaction(key, op)
                \/ CancelTransaction(key, op)
          \/ \E new_delay \in Delays : SetDelay(key, new_delay)
          \/ \E new_key \in Keys : TransferOwnership(key, new_key) \/ SetGuardian(key, new_key)
          \/ AcceptOwnership(key)
          \/ \E target \in Targets, status \in BOOLEAN : SetPausableTarget(key, target, status)
          \/ CompleteSetup(key)
    \/ Tick

Spec == Init /\ [][Next]_vars

--------------------------------------------------------------------------------
(* Properties *)

announced == [op \in Ops |-> IF queue[op] = NotQueued THEN NotQueued ELSE queue[op].queued_at]

Promise == INSTANCE Embargo WITH
    Changes <- Ops, NotAnnounced <- NotQueued, made <- dispatched,
    Notice <- MIN_DELAY, Expiry <- MAX_DELAY + GRACE_PERIOD

\* Whatever the owner does to the delay, to entries or to the ownership in
\* between, an operation is dispatched once per announcement, at least
\* MIN_DELAY after it and at most MAX_DELAY and the grace period after it.
ImplementsEmbargo == Promise!Spec
================================================================================
