-------------------------------- MODULE Embargo --------------------------------
(***************************************************************************)
(* What a timelock promises to those it governs: a change is announced,    *)
(* stays open to objection for at least Notice, and is made at most once   *)
(* per announcement, not later than Expiry after it.  Who announces, and   *)
(* how the period is chosen, is left open.                                 *)
(***************************************************************************)
EXTENDS Integers

CONSTANTS Changes, NotAnnounced, Notice, Expiry

VARIABLES
    announced,  \* when each change was announced, or NotAnnounced
    made,       \* how often each change was made
    now

vars == <<announced, made, now>>

Init ==
    /\ announced = [c \in Changes |-> NotAnnounced]
    /\ made = [c \in Changes |-> 0]
    /\ now \in Nat

Announce(c) ==
    /\ announced[c] = NotAnnounced
    /\ announced' = [announced EXCEPT ![c] = now]
    /\ UNCHANGED <<made, now>>

Withdraw(c) ==
    /\ announced[c] # NotAnnounced
    /\ announced' = [announced EXCEPT ![c] = NotAnnounced]
    /\ UNCHANGED <<made, now>>

Make(c) ==
    /\ announced[c] # NotAnnounced
    /\ now - announced[c] \in Notice .. Expiry
    /\ announced' = [announced EXCEPT ![c] = NotAnnounced]
    /\ made' = [made EXCEPT ![c] = @ + 1]
    /\ UNCHANGED now

Advance ==
    /\ now' \in Nat
    /\ now' > now
    /\ UNCHANGED <<announced, made>>

Next == (\E c \in Changes : Announce(c) \/ Withdraw(c) \/ Make(c)) \/ Advance

Spec == Init /\ [][Next]_vars
================================================================================
